---- MODULE Spec2Model ----
(***************************************************************************)
(* The archive subsystem of focl: segment writer and finalize, the durable *)
(* replication queue, the replicator worker and the archive service with   *)
(* its scheduler, as a state machine over an abstract file system.         *)
(***************************************************************************)
EXTENDS Integers, Sequences, FiniteSets, TLC

(***************************************************************************)
(* Bounds of the model.                                                    *)
(***************************************************************************)
\* Wall-clock seconds run over 0..MaxTime.
MaxTime == 2
\* Operations (ingest, rollover, snapshot_now, tick, direct enqueue, operator
\* retry) started and process kills in one behaviour.
MaxOps == 2
\* Injected I/O or queue faults in one behaviour.
MaxFaults == 1
\* Copies a destination refuses in one behaviour.
MaxUnreachable == 1
\* cfg.updates_interval_secs, scaled down (any value > 0 dividing 3600).
UpdatesInterval == 2
\* max_retries of the second replica destination.
ReplicaMaxRetries == 2
\* Routes in a RIB snapshot handed to snapshot_now.
MaxRoutes == 1

\* retry_backoff_secs of the replica destinations.
RetryBackoff == 1
\* Width of ReplicationJob.attempts (u32), scaled down.
AttemptBits == 3
\* Width of Replicator.failures (AtomicU64), scaled down.
FailureBits == 4
\* Capacity of the broadcast channel of events (512), scaled down.
ChannelCapacity == 16

(***************************************************************************)
(* Program constants.                                                      *)
(***************************************************************************)
\* replicator.rs: claim_ready(32)
ClaimLimit == 32
\* replicator.rs: retry_backoff_secs of a destination that is not in the map
DefaultRetrySecs == 5

\* cfg.ribs_interval_secs: a positive multiple of the updates interval.
RibsInterval == UpdatesInterval

\* Option<T>: None, or Some(x) holding x.
None == <<>>
Some(x) == <<x>>
Get(o) == o[1]
Free == "free"

Streams == {"updates", "ribs"}
Times == 0 .. MaxTime

(***************************************************************************)
(* layout.rs                                                               *)
(***************************************************************************)
\* i64::rem_euclid: the remainder in 0..i-1, also for negative t.
rem_euclid(t, i) == t % i

aligned_epoch(timestamp, interval_secs) ==
    timestamp - rem_euclid(timestamp, interval_secs)

IntervalOf(stream) ==
    IF stream = "updates" THEN UpdatesInterval ELSE RibsInterval

\* A segment's tmp_path, final_path and relative_path are all derived from
\* (stream, aligned timestamp): one value stands for the three.
segment_paths(stream, timestamp) ==
    <<stream, aligned_epoch(timestamp, IntervalOf(stream))>>

Buckets(stream) == {aligned_epoch(t, IntervalOf(stream)) : t \in Times}
Paths == {<<s, b>> : s \in Streams, b \in Buckets("updates") \cup Buckets("ribs")}

(***************************************************************************)
(* State.                                                                  *)
(***************************************************************************)
VARIABLES
    now,              \* wall clock (Utc::now().timestamp())
    up,               \* the daemon process is running
    \* ---- the disk: survives a process kill
    inodes,           \* file contents, by inode number (a sequence)
    tmp_dir,          \* tmp root: path -> inode, 0 when there is no file
    final_dir,        \* archive root: path -> inode, 0 when there is no file
    sidecars,         \* archive root: path -> manifest at <final_path>.json
    replica,          \* destination -> path -> copied segment and manifest
    queue,            \* rows of replication_queue
    next_id,          \* the AUTOINCREMENT sequence of the table
    \* ---- the process: lost by a process kill
    updates_writer,   \* ArchiveService.updates_writer
    ribs_last,        \* ArchiveService.ribs_last
    last_rib_bucket,  \* ArchiveService.last_rib_bucket
    locks,            \* holder of each of the three service mutexes
    failures,         \* Replicator.failures
    dest_order,       \* iteration order of Replicator.destinations (a HashMap)
    task,             \* per task: operation, position, locals
    rep,              \* the replicator task: position, claimed batch
    \* ---- history
    events,           \* every event sent on the broadcast channel, in order
    finalized_log,    \* every FinalizedSegment returned by finalize
    enqueue_log,      \* every row inserted, with the finalization it is for
    attempt_log,      \* every attempt of the replicator on a job, numbered per job
    budget,           \* operations, kills, faults, refused copies so far
    \* ---- concurrent callers of ReplicationQueue::claim_ready
    claimers,         \* per caller: position in claim_ready, SQLite lock, jobs
    claim_log,        \* history: every job a claim_ready call returned
    \* ---- a pure function of the program applied to an input
    calc,             \* the function, its arguments and what it returned
    \* ---- configuration
    enabled,          \* ArchiveConfig.enabled
    retry_backoff     \* retry_backoff_secs of the configured destinations

disk == <<inodes, tmp_dir, final_dir, sidecars, replica, queue, next_id>>
proc == <<updates_writer, ribs_last, last_rib_bucket, locks, failures,
          dest_order, task, rep>>
hist == <<events, finalized_log, enqueue_log, attempt_log, budget>>
claim == <<claimers, claim_log, calc, enabled, retry_backoff>>
vars == <<now, up, disk, proc, hist, claim>>

(***************************************************************************)
(* Destinations (config/mod.rs): the primary is the archive root; two      *)
(* async replicas, one retrying for ever and one with a retry budget.      *)
(* Their retry_backoff_secs is the configured value retry_backoff.         *)
(***************************************************************************)
DestinationConfig(backoff) ==
    [ root |-> [mode |-> "primary",       max_retries |-> 0,
                retry_backoff_secs |-> backoff],
      d1   |-> [mode |-> "async_replica", max_retries |-> 0,
                retry_backoff_secs |-> backoff],
      d2   |-> [mode |-> "async_replica", max_retries |-> ReplicaMaxRetries,
                retry_backoff_secs |-> backoff] ]

Destinations == DestinationConfig(retry_backoff)

\* The keys, modes and retry budgets are the same for every backoff.
DestKeys == DOMAIN DestinationConfig(RetryBackoff)
AsyncReplicas ==
    {d \in DestKeys : DestinationConfig(RetryBackoff)[d].mode = "async_replica"}
\* The async replicas whose jobs are retried for ever.
RetryForEver ==
    {d \in AsyncReplicas : DestinationConfig(RetryBackoff)[d].max_retries = 0}
\* The orders in which the destination map may be iterated.
Orders(S) ==
    {o \in [1 .. Cardinality(S) -> S] : \A i, j \in DOMAIN o : o[i] = o[j] => i = j}

\* A destination key of an earlier configuration, no longer in the map.
GoneDest == "gone"

Sessions == {"bgp1", "bgp2"}
Clients == {"ctl1", "ctl2"}
Sched == "sched"
Tasks == Sessions \cup Clients \cup {Sched}
LockNames == {"updates_writer", "ribs_last", "last_rib_bucket"}

\* No function applied yet.
NoCalc == [op |-> "none", args |-> <<>>, out |-> None, panicked |-> FALSE]

\* Callers of claim_ready that run at the same time on the same table.
ClaimWorkers == {"w1", "w2"}

\* A caller outside claim_ready: no transaction, no lock on the database.
IdleClaimer == [pc |-> "idle", lock |-> "none", jobs |-> <<>>, calls |-> 0,
                result |-> ""]

IdleTask ==
    [ op |-> "idle", pc |-> "idle", ctx |-> "", ts |-> 0, input |-> None,
      w |-> None, man |-> None, seg |-> None, result |-> "",
      \* history of the call: it took the open updates writer to finalize it
      took_writer |-> FALSE,
      \* the ArchiveStatus the last call of status returned
      report |-> None ]

IdleRep == [pc |-> "sleep", batch |-> <<>>]

\* A destination without the segment file and without the manifest file.
NotCopied == [segment |-> None, manifest |-> None]

(***************************************************************************)
(* Files.  A segment's bytes are the sequence of its records followed by   *)
(* the trailer the compression codec writes when the stream is finished.   *)
(***************************************************************************)
EOF == <<"EOF">>

\* Writing s at offset 0 of a file holding old, as a writer that has written
\* nothing yet does when its buffers are flushed: bytes beyond s stay.
Overwrite(old, s) ==
    s \o (IF Len(old) > Len(s) THEN SubSeq(old, Len(s) + 1, Len(old)) ELSE <<>>)

\* A finished compression stream: records, then exactly one trailer.
Complete(bytes) ==
    /\ Len(bytes) >= 1
    /\ bytes[Len(bytes)] = EOF
    /\ \A i \in 1 .. Len(bytes) - 1 : bytes[i] # EOF

\* compute_sha256: distinct contents have distinct digests.
compute_sha256(bytes) == <<"sha256", bytes>>

\* File::create(tmp_path): a new inode, or the existing one truncated.
CreatedIno(path) ==
    IF tmp_dir[path] # 0 THEN tmp_dir[path] ELSE Len(inodes) + 1

InodesAfterCreate(path) ==
    IF tmp_dir[path] # 0
    THEN [inodes EXCEPT ![tmp_dir[path]] = <<>>]
    ELSE Append(inodes, <<>>)

\* SegmentWriter::new
SegmentWriter_new(stream, start_ts, path) ==
    [ stream |-> stream, start_ts |-> start_ts, path |-> path,
      ino |-> CreatedIno(path), recs |-> <<>>, record_count |-> 0,
      \* history: write_record calls that returned Ok, and Err
      ok_writes |-> 0, failed_writes |-> 0 ]

(***************************************************************************)
(* Events (types.rs: Event), as sent on the broadcast channel.             *)
(***************************************************************************)
Opened(path) == [type |-> "archive_segment_opened", path |-> path, dest |-> ""]
\* A finalized event that names the other stream's path.
FinalizedElsewhere(path) ==
    [ type |-> "archive_segment_finalized",
      path |-> <<IF path[1] = "updates" THEN "ribs" ELSE "updates", path[2]>>,
      dest |-> "" ]
Finalized(path) == [type |-> "archive_segment_finalized", path |-> path, dest |-> ""]
ReplicationSucceeded(dest, path) ==
    [type |-> "archive_replication_succeeded", path |-> path, dest |-> dest]
ReplicationFailed(dest, path) ==
    [type |-> "archive_replication_failed", path |-> path, dest |-> dest]

\* emit: event_tx.send.  The channel retains its last ChannelCapacity
\* messages; the oldest is dropped when one more is sent.
emit(evs, event) ==
    LET all == Append(evs, event)
    IN  IF Len(all) > ChannelCapacity THEN Tail(all) ELSE all

Init ==
    /\ retry_backoff = RetryBackoff
    /\ now = 0
    /\ up = TRUE
    /\ inodes = << <<>> >>
    /\ tmp_dir = [p \in Paths |-> IF p = segment_paths("updates", 0) THEN 1 ELSE 0]
    /\ final_dir = [p \in Paths |-> 0]
    /\ sidecars = [p \in Paths |-> None]
    /\ replica = [d \in AsyncReplicas |-> [p \in Paths |-> NotCopied]]
    /\ queue = {}
    /\ next_id = 1
    /\ updates_writer =
        << [ stream |-> "updates", start_ts |-> 0,
             path |-> segment_paths("updates", 0), ino |-> 1,
             recs |-> <<>>, record_count |-> 0, ok_writes |-> 0,
             failed_writes |-> 0 ] >>
    /\ ribs_last = None
    /\ last_rib_bucket = None
    /\ locks = [l \in LockNames |-> Free]
    /\ failures = 0
    /\ dest_order \in Orders(AsyncReplicas)
    /\ task = [t \in Tasks |-> IdleTask]
    /\ rep = IdleRep
    /\ events = << Opened(segment_paths("updates", 0)) >>
    /\ finalized_log = <<>>
    /\ enqueue_log = {}
    /\ attempt_log = {}
    /\ budget = [ops |-> 0, crashes |-> 0, faults |-> 0, unreachable |-> 0]
    /\ claimers = [w \in ClaimWorkers |-> IdleClaimer]
    /\ claim_log = {}
    /\ calc = NoCalc
    /\ enabled = TRUE

(***************************************************************************)
(* Calls and returns of a task.                                            *)
(***************************************************************************)
NewCall(op, ts, input) ==
    [IdleTask EXCEPT !.op = op, !.pc = "running", !.ts = ts, !.input = Some(input)]

\* The call returns `result`; its locals are dropped.
Done(tk, result) ==
    [IdleTask EXCEPT !.result = result, !.took_writer = tk.took_writer]

\* A return that keeps the guards of the call.
ReleaseNone(t) == locks

\* Every MutexGuard of the returning call is dropped.
ReleaseAll(t) == [l \in LockNames |-> IF locks[l] = t THEN Free ELSE locks[l]]

CanStart(t) ==
    /\ up
    /\ task[t].pc = "idle"
    /\ budget.ops < MaxOps

Started == [budget EXCEPT !.ops = @ + 1]

FaultChoices == IF budget.faults < MaxFaults THEN {TRUE, FALSE} ELSE {TRUE}
Faulted(ok) == IF ok THEN budget ELSE [budget EXCEPT !.faults = @ + 1]

(***************************************************************************)
(* mod.rs: ensure_updates_writer                                           *)
(***************************************************************************)
\* Where the caller goes on after ensure_updates_writer returned Ok.
AfterEnsure(tk) ==
    CASE tk.op = "ingest" -> [tk EXCEPT !.pc = "write", !.ctx = ""]
      [] tk.op = "tick"   -> [tk EXCEPT !.pc = "rib", !.ctx = ""]
      [] OTHER            -> Done(tk, "ok")

needs_rotate(now_ts) ==
    IF updates_writer = None
    THEN TRUE
    ELSE Get(updates_writer).start_ts # aligned_epoch(now_ts, UpdatesInterval)

\* The body of ensure_updates_writer(tk.ts) up to the call of finalize, or to
\* its return when there is no old writer to finalize.
EnsureBody(t, tk, bud) ==
    LET update_bucket == aligned_epoch(tk.ts, UpdatesInterval)
        paths == segment_paths("updates", tk.ts)
    IN  /\ locks.updates_writer = Free
        /\ budget' = bud
        /\ IF ~needs_rotate(tk.ts)
           THEN /\ task' = [task EXCEPT ![t] = AfterEnsure(tk)]
                /\ UNCHANGED <<updates_writer, locks, events, inodes, tmp_dir>>
           ELSE IF updates_writer # None
           THEN /\ task' = [task EXCEPT ![t] =
                       [tk EXCEPT !.pc = "finish", !.ctx = "ensure",
                                  !.w = updates_writer, !.took_writer = TRUE]]
                /\ updates_writer' = None
                /\ locks' = [locks EXCEPT !.updates_writer = t]
                /\ UNCHANGED <<events, inodes, tmp_dir>>
           ELSE /\ events' = emit(events, Opened(paths))
                /\ inodes' = InodesAfterCreate(paths)
                /\ tmp_dir' = [tmp_dir EXCEPT ![paths] = CreatedIno(paths)]
                /\ updates_writer' =
                       Some(SegmentWriter_new("updates", update_bucket, paths))
                /\ task' = [task EXCEPT ![t] = AfterEnsure(tk)]
                /\ UNCHANGED locks
        /\ UNCHANGED <<now, up, claim, final_dir, sidecars, replica, queue, next_id,
                       ribs_last, last_rib_bucket, failures, dest_order, rep,
                       finalized_log, enqueue_log, attempt_log>>

(***************************************************************************)
(* mod.rs: ingest_update, ingest_peer_state                                *)
(***************************************************************************)
IngestKinds == {"update", "peer_state"}
IngestInputs == [kind : IngestKinds, timestamp : Times, valid : BOOLEAN]

\* ingest_update(u) / ingest_peer_state(u): the call and its
\* ensure_updates_writer(u.timestamp).
Ingest(t, u) ==
    /\ CanStart(t)
    /\ EnsureBody(t, NewCall("ingest", u.timestamp, u), Started)

\* snapshot.rs: the record encode_bgp4mp_message_as4 / _state_change_as4 builds
\* (the MRT header carries the timestamp).
EncodedRecord(u) == <<u.kind, u.timestamp>>

\* A write_record that counted the record before write_all returned: a
\* failed write would be counted too.
write_record_counting_first(w, record, ok) ==
    IF ok
    THEN [w EXCEPT !.recs = Append(@, record), !.record_count = @ + 1,
                   !.ok_writes = @ + 1]
    ELSE [w EXCEPT !.record_count = @ + 1, !.failed_writes = @ + 1]

\* writer.rs: write_record.  When write_all returns Ok (ok) the record is in
\* the stream and record_count is incremented; when it returns Err, `?`
\* returns before the increment.
write_record(w, record, ok) ==
    IF ok
    THEN [w EXCEPT !.recs = Append(@, record), !.record_count = @ + 1,
                   !.ok_writes = @ + 1]
    ELSE [w EXCEPT !.failed_writes = @ + 1]

\* The rest of ingest: encode the record, lock the writer, write_record.
IngestWrite(t) ==
    LET tk == task[t]
        u == Get(tk.input)
    IN  /\ up
        /\ tk.pc = "write"
        /\ IF ~u.valid
           THEN \* encode_* fails: `?` returns before the lock is taken
                /\ task' = [task EXCEPT ![t] = Done(tk, "Encode")]
                /\ UNCHANGED <<updates_writer, budget>>
           ELSE /\ locks.updates_writer = Free
                /\ IF updates_writer = None
                   THEN /\ task' = [task EXCEPT ![t] = Done(tk, "NoWriter")]
                        /\ UNCHANGED <<updates_writer, budget>>
                   ELSE \E ok \in FaultChoices :
                        /\ budget' = Faulted(ok)
                        /\ updates_writer' =
                               Some(write_record(Get(updates_writer),
                                                 EncodedRecord(u), ok))
                        /\ task' = [task EXCEPT ![t] =
                               Done(tk, IF ok THEN "ok" ELSE "Io")]
        /\ UNCHANGED <<now, up, claim, disk, ribs_last, last_rib_bucket, locks,
                       failures, dest_order, rep, events, finalized_log, enqueue_log,
                       attempt_log>>

(***************************************************************************)
(* writer.rs: SegmentWriter::finalize, one step per file-system operation. *)
(* The writer being finalized is the local task[t].w.                      *)
(***************************************************************************)
\* finalize returned Err: `?` in the caller returns it and drops its guards.
FinalizeFailed(t) ==
    /\ task' = [task EXCEPT ![t] = Done(task[t], "Io")]
    /\ locks' = ReleaseAll(t)

\* encoder.finish() (and sync_all): the buffered records and the trailer of
\* the compression stream reach the file behind the writer's descriptor.
FinFinish(t) ==
    LET tk == task[t]
        w == Get(tk.w)
    IN  /\ up
        /\ tk.pc = "finish"
        /\ inodes' = [inodes EXCEPT ![w.ino] = Overwrite(@, w.recs \o <<EOF>>)]
        /\ task' = [task EXCEPT ![t].pc = "rename"]
        /\ UNCHANGED <<now, up, claim, tmp_dir, final_dir, sidecars, replica, queue,
                       next_id, updates_writer, ribs_last, last_rib_bucket,
                       locks, failures, dest_order, rep, hist>>

\* A finalize that may rename the tmp file without having finished the stream.
FinRenameUnfinished(t) ==
    LET tk == task[t]
        w == Get(tk.w)
    IN  /\ up
        /\ tk.pc \in {"finish", "rename"}
        /\ tmp_dir[w.path] # 0
        /\ final_dir' = [final_dir EXCEPT ![w.path] = tmp_dir[w.path]]
        /\ tmp_dir' = [tmp_dir EXCEPT ![w.path] = 0]
        /\ task' = [task EXCEPT ![t].pc = "hash"]
        /\ UNCHANGED <<now, up, claim, inodes, sidecars, replica, queue, next_id,
                       updates_writer, ribs_last, last_rib_bucket, locks, failures,
                       dest_order, rep, hist>>

\* fs::rename(tmp_path, final_path): by path; fails when tmp_path is gone.
FinRename(t) ==
    LET tk == task[t]
        w == Get(tk.w)
    IN  /\ up
        /\ tk.pc = "rename"
        /\ IF tmp_dir[w.path] = 0
           THEN /\ FinalizeFailed(t)
                /\ UNCHANGED <<tmp_dir, final_dir>>
           ELSE /\ final_dir' = [final_dir EXCEPT ![w.path] = tmp_dir[w.path]]
                /\ tmp_dir' = [tmp_dir EXCEPT ![w.path] = 0]
                /\ task' = [task EXCEPT ![t].pc = "hash"]
                /\ UNCHANGED locks
        /\ UNCHANGED <<now, up, claim, inodes, sidecars, replica, queue, next_id,
                       updates_writer, ribs_last, last_rib_bucket, failures, dest_order,
                       rep, hist>>

\* The steps of finalize that can return an error.
FinalizeSteps == {"finish", "rename", "hash", "sidecar"}

\* finalize returns Err at the step it is at: encoder.finish or sync_all
\* (the records may or may not have reached the file), fs::rename,
\* SegmentManifest::build (metadata or hashing), write_sidecar.  Nothing is
\* undone; the writer is dropped and `?` returns the error to the caller.
FinalizeFails(t) ==
    LET tk == task[t]
        w == Get(tk.w)
    IN  /\ up
        /\ tk.pc \in FinalizeSteps
        /\ budget.faults < MaxFaults
        /\ budget' = Faulted(FALSE)
        /\ FinalizeFailed(t)
        /\ IF tk.pc = "finish"
           THEN \E flushed \in BOOLEAN :
                   inodes' = IF flushed
                             THEN [inodes EXCEPT ![w.ino] =
                                      Overwrite(@, w.recs \o <<EOF>>)]
                             ELSE inodes
           ELSE UNCHANGED inodes
        /\ UNCHANGED <<now, up, claim, tmp_dir, final_dir, sidecars, replica, queue,
                       next_id, updates_writer, ribs_last, last_rib_bucket,
                       failures, dest_order, rep, events, finalized_log,
                       enqueue_log, attempt_log>>

\* manifest.rs: SegmentManifest::build
SegmentManifest_build(w, end_ts, bytes) ==
    [ stream |-> w.stream, start_ts |-> w.start_ts, end_ts |-> end_ts,
      record_count |-> w.record_count, bytes |-> Len(bytes),
      sha256 |-> compute_sha256(bytes), relative_path |-> w.path ]

\* SegmentManifest::build: stat and hash the file now at final_path.
FinHash(t) ==
    LET tk == task[t]
        w == Get(tk.w)
    IN  /\ up
        /\ tk.pc = "hash"
        /\ task' = [task EXCEPT ![t] =
               [tk EXCEPT !.pc = "sidecar",
                          !.man = Some(SegmentManifest_build(
                                     w, tk.ts, inodes[final_dir[w.path]]))]]
        /\ UNCHANGED <<now, up, claim, disk, updates_writer, ribs_last,
                       last_rib_bucket, locks, failures, dest_order, rep, hist>>

\* The FinalizedSegment finalize returns.
FinalizedSegment(w, man, t) ==
    [ fid |-> Len(finalized_log) + 1, by |-> t,
      stream |-> w.stream, start_ts |-> w.start_ts, end_ts |-> man.end_ts,
      record_count |-> w.record_count, bytes |-> man.bytes,
      final_path |-> w.path,
      \* history: write_record calls on the writer that returned Ok, and Err
      ok_writes |-> w.ok_writes, failed_writes |-> w.failed_writes ]

\* manifest.write_sidecar(final_path), and finalize returns Ok.
FinSidecar(t) ==
    LET tk == task[t]
        w == Get(tk.w)
        seg == FinalizedSegment(w, Get(tk.man), t)
    IN  /\ up
        /\ tk.pc = "sidecar"
        /\ sidecars' = [sidecars EXCEPT ![w.path] = tk.man]
        /\ finalized_log' = Append(finalized_log, seg)
        /\ task' = [task EXCEPT ![t] = [tk EXCEPT !.pc = "post", !.seg = Some(seg)]]
        /\ UNCHANGED <<now, up, claim, inodes, tmp_dir, final_dir, replica, queue,
                       next_id, updates_writer, ribs_last, last_rib_bucket,
                       locks, failures, dest_order, rep, events, enqueue_log, attempt_log,
                       budget>>

(***************************************************************************)
(* queue.rs: enqueue; replicator.rs: enqueue_segment                       *)
(***************************************************************************)
\* The row enqueue inserts.
NewRow(id, segment_path, destination_key, max_retries) ==
    [ id |-> id, segment_path |-> segment_path,
      destination_key |-> destination_key, attempts |-> 0,
      max_retries |-> max_retries, next_retry_ts |-> now,
      status |-> "pending", last_error |-> "" ]

\* The rows enqueue_segment inserts when its first k enqueue calls return Ok,
\* the async_replica destinations being met in `order`.
SegmentRows(seg, order, k) ==
    { NewRow(next_id + i - 1, seg.final_path, order[i],
             Destinations[order[i]].max_retries) : i \in 1 .. k }

(***************************************************************************)
(* mod.rs: what follows a successful finalize in ensure_updates_writer,    *)
(* rotate_updates and snapshot_now: emit, enqueue_segment, and the rest of *)
(* the function.                                                           *)
(***************************************************************************)
AfterFinalize(t) ==
    LET tk == task[t]
        seg == Get(tk.seg)
        paths == segment_paths("updates", tk.ts)
    IN  /\ up
        /\ tk.pc = "post"
        /\ tk.ctx = "snapshot" => locks.ribs_last = Free
        /\ \E ok \in FaultChoices :
           \E k \in (IF ok THEN {Len(dest_order)} ELSE 0 .. Len(dest_order) - 1) :
              /\ queue' = queue \cup SegmentRows(seg, dest_order, k)
              /\ next_id' = next_id + k
              /\ enqueue_log' = enqueue_log \cup
                     { [id |-> next_id + i - 1, fid |-> seg.fid,
                        destination_key |-> dest_order[i]] : i \in 1 .. k }
              /\ budget' = Faulted(ok)
              /\ IF ~ok
                 THEN \* enqueue_segment returned Err: `?` returns it
                      /\ events' = emit(events, Finalized(seg.final_path))
                      /\ task' = [task EXCEPT ![t] = Done(tk, "Queue")]
                      /\ locks' = ReleaseAll(t)
                      /\ UNCHANGED <<inodes, tmp_dir, updates_writer,
                                     ribs_last, last_rib_bucket>>
                 ELSE IF tk.ctx = "ensure"
                 THEN \* open the writer of the new bucket
                      /\ events' = emit(emit(events, Finalized(seg.final_path)),
                                     Opened(paths))
                      /\ inodes' = InodesAfterCreate(paths)
                      /\ tmp_dir' = [tmp_dir EXCEPT ![paths] = CreatedIno(paths)]
                      /\ updates_writer' = Some(SegmentWriter_new(
                             "updates", aligned_epoch(tk.ts, UpdatesInterval),
                             paths))
                      /\ task' = [task EXCEPT ![t] =
                             AfterEnsure([tk EXCEPT !.w = None, !.man = None,
                                                    !.seg = None])]
                      /\ locks' = ReleaseAll(t)
                      /\ UNCHANGED <<ribs_last, last_rib_bucket>>
                 ELSE IF tk.ctx = "rotate"
                 THEN \* rotate_updates drops its guard, then calls
                      \* ensure_updates_writer
                      /\ events' = emit(events, Finalized(seg.final_path))
                      /\ task' = [task EXCEPT ![t] =
                             [tk EXCEPT !.pc = "ensure", !.ctx = "", !.w = None,
                                        !.man = None, !.seg = None]]
                      /\ locks' = ReleaseAll(t)
                      /\ UNCHANGED <<inodes, tmp_dir, updates_writer,
                                     ribs_last, last_rib_bucket>>
                 ELSE \* snapshot_now stores the segment; tick records the bucket
                      /\ events' = emit(events, Finalized(seg.final_path))
                      /\ ribs_last' = Some(seg)
                      /\ last_rib_bucket' =
                             IF tk.op = "tick"
                             THEN Some(aligned_epoch(tk.ts, RibsInterval))
                             ELSE last_rib_bucket
                      /\ task' = [task EXCEPT ![t] = Done(tk, "ok")]
                      /\ locks' = ReleaseAll(t)
                      /\ UNCHANGED <<inodes, tmp_dir, updates_writer>>
        /\ UNCHANGED <<now, up, claim, final_dir, sidecars, replica, failures, dest_order, rep,
                       finalized_log, attempt_log>>

(***************************************************************************)
(* mod.rs: rollover(Updates) -> rotate_updates                             *)
(***************************************************************************)
\* rollover(Updates): the first block of rotate_updates(now) up to finalize.
RolloverUpdates(t) ==
    /\ CanStart(t)
    /\ locks.updates_writer = Free
    /\ budget' = Started
    /\ IF updates_writer # None
       THEN /\ task' = [task EXCEPT ![t] =
                   [NewCall("rollover", now, [stream |-> "updates"]) EXCEPT
                       !.pc = "finish", !.ctx = "rotate",
                       !.w = updates_writer, !.took_writer = TRUE]]
            /\ updates_writer' = None
            /\ locks' = [locks EXCEPT !.updates_writer = t]
       ELSE /\ task' = [task EXCEPT ![t] =
                   [NewCall("rollover", now, [stream |-> "updates"]) EXCEPT
                       !.pc = "ensure"]]
            /\ UNCHANGED <<updates_writer, locks>>
    /\ UNCHANGED <<now, up, claim, disk, ribs_last, last_rib_bucket, failures, dest_order, rep,
                   events, finalized_log, enqueue_log, attempt_log>>

\* rotate_updates: the closing ensure_updates_writer(now_ts).
RotateEnsure(t) ==
    /\ up
    /\ task[t].pc = "ensure"
    /\ EnsureBody(t, task[t], budget)

(***************************************************************************)
(* mod.rs: snapshot_now; snapshot.rs: build_table_dump_v2                  *)
(***************************************************************************)
\* RibSnapshotInput: its timestamp, its number of routes, and whether every
\* route names a peer of the snapshot with a prefix length <= 32.
SnapshotInputs ==
    { i \in [timestamp : Times, routes : 0 .. MaxRoutes, valid : BOOLEAN] :
        ~i.valid => i.routes >= 1 }
EmptySnapshot(ts) == [timestamp |-> ts, routes |-> 0, valid |-> TRUE]

\* A table dump without the peer-index table.
build_table_dump_v2_routes_only(input) ==
    [i \in 1 .. input.routes |-> <<"rib_ipv4_unicast", input.timestamp, i>>]

\* build_table_dump_v2: the peer-index table, then one record per route, the
\* i-th record made of the i-th route of the input.
build_table_dump_v2(input) ==
    << <<"peer_index_table", input.timestamp>> >> \o
    [i \in 1 .. input.routes |-> <<"rib_ipv4_unicast", input.timestamp, i>>]

\* A build_table_dump_v2 that checks no route.
build_table_dump_v2_unchecked(input) == FALSE

\* build_table_dump_v2 bails: a route has prefix_len > 32 or a peer_index
\* that is not in the peer index table of the snapshot.
build_table_dump_v2_bails(input) == ~input.valid

RECURSIVE WriteAll(_, _)
\* for rec in records { writer.write_record(&rec)? }
WriteAll(w, records) ==
    IF records = <<>> THEN w
    ELSE WriteAll(write_record(w, Head(records), TRUE), Tail(records))

\* snapshot_now(input) up to the call of finalize: emit the opened event,
\* SegmentWriter::new, build the records, write them.
SnapshotBody(t, tk, lk, bud) ==
    LET input == Get(tk.input)
        paths == segment_paths("ribs", input.timestamp)
        writer == SegmentWriter_new(
                      "ribs", aligned_epoch(input.timestamp, RibsInterval), paths)
    IN  /\ events' = emit(events, Opened(paths))
        /\ inodes' = InodesAfterCreate(paths)
        /\ tmp_dir' = [tmp_dir EXCEPT ![paths] = CreatedIno(paths)]
        /\ budget' = bud
        /\ IF build_table_dump_v2_bails(input)
           THEN \* build_table_dump_v2 fails: the writer is dropped
                /\ task' = [task EXCEPT ![t] = Done(tk, "Encode")]
                /\ locks' = [l \in LockNames |->
                                IF lk[l] = t THEN Free ELSE lk[l]]
           ELSE /\ task' = [task EXCEPT ![t] =
                       [tk EXCEPT !.pc = "finish", !.ctx = "snapshot",
                                  !.w = Some(WriteAll(
                                      writer, build_table_dump_v2(input)))]]
                /\ locks' = lk
        /\ UNCHANGED <<now, up, claim, final_dir, sidecars, replica, queue, next_id,
                       updates_writer, ribs_last, last_rib_bucket, failures, dest_order,
                       rep, finalized_log, enqueue_log, attempt_log>>

\* snapshot_now(input) called through the ingest API.
SnapshotNow(t, input) ==
    /\ CanStart(t)
    /\ SnapshotBody(t, NewCall("snapshot", input.timestamp, input), locks, Started)

\* rollover(Ribs): snapshot_now with an empty snapshot taken now.
RolloverRibs(t) ==
    /\ CanStart(t)
    /\ SnapshotBody(t, NewCall("rollover", now, EmptySnapshot(now)), locks, Started)

(***************************************************************************)
(* mod.rs: tick (the scheduler task)                                       *)
(***************************************************************************)
\* tick: now is read, then ensure_updates_writer(now).
Tick ==
    /\ CanStart(Sched)
    /\ EnsureBody(Sched, NewCall("tick", now, EmptySnapshot(now)), Started)

\* A scheduler that takes a snapshot at every tick.
rib_due_always(rib_bucket) == TRUE

\* tick: `last_rib.map(|v| v != rib_bucket).unwrap_or(true)`
rib_due(rib_bucket) ==
    last_rib_bucket = None \/ last_rib_bucket # Some(rib_bucket)

\* tick: lock last_rib_bucket; when the RIB bucket differs, snapshot_now.
TickRib ==
    LET tk == task[Sched]
        rib_bucket == aligned_epoch(tk.ts, RibsInterval)
    IN  /\ up
        /\ tk.pc = "rib"
        /\ locks.last_rib_bucket = Free
        /\ IF rib_due(rib_bucket)
           THEN SnapshotBody(Sched, tk,
                    [locks EXCEPT !.last_rib_bucket = Sched], budget)
           ELSE /\ task' = [task EXCEPT ![Sched] = Done(tk, "ok")]
                /\ UNCHANGED <<now, up, claim, disk, updates_writer, ribs_last,
                               last_rib_bucket, locks, failures, dest_order, rep, hist>>

\* Time passes.
ClockAdvance ==
    /\ now < MaxTime
    /\ now' = now + 1
    /\ UNCHANGED <<up, claim, disk, proc, hist>>

(***************************************************************************)
(* queue.rs: the operations of ReplicationQueue on the rows of the table.  *)
(***************************************************************************)
\* The rows the SELECT of claim_ready matches.
ReadyRows(rows, now_ts) ==
    {r \in rows : r.status = "pending" /\ r.next_retry_ts <= now_ts}

\* A LIMIT that keeps the rows with the highest ids.
ClaimedRowsNewest(rows, now_ts, limit) ==
    LET ready == ReadyRows(rows, now_ts)
    IN  {r \in ready : Cardinality({x \in ready : x.id > r.id}) < limit}

\* ORDER BY id ASC LIMIT limit
ClaimedRows(rows, now_ts, limit) ==
    LET ready == ReadyRows(rows, now_ts)
    IN  {r \in ready : Cardinality({x \in ready : x.id < r.id}) < limit}

RECURSIVE ById(_)
\* A set of rows as the sequence in ascending id order.
ById(rows) ==
    IF rows = {} THEN <<>>
    ELSE LET first == CHOOSE r \in rows : \A x \in rows : r.id <= x.id
         IN  <<first>> \o ById(rows \ {first})

\* ReplicationJob: the snapshot of a row claim_ready returns.
JobOf(r) ==
    [ id |-> r.id, segment_path |-> r.segment_path,
      destination_key |-> r.destination_key, attempts |-> r.attempts,
      max_retries |-> r.max_retries ]

\* claim_ready: the jobs returned ...
claim_ready_jobs(rows, now_ts, limit) ==
    ById({JobOf(r) : r \in ClaimedRows(rows, now_ts, limit)})

\* ... and the table after its UPDATEs.
claim_ready_rows(rows, now_ts, limit) ==
    LET claimed == ClaimedRows(rows, now_ts, limit)
    IN  (rows \ claimed) \cup {[r EXCEPT !.status = "in_progress"] : r \in claimed}

\* mark_success: DELETE ... WHERE id = ?
mark_success(rows, job_id) == {r \in rows : r.id # job_id}

\* u32::MAX
U32Max == 2 ^ AttemptBits - 1

\* An attempt count that is not advanced by the failure.
next_attempt_stale(job) == job.attempts

\* job.attempts.saturating_add(1)
next_attempt(job) ==
    IF job.attempts >= U32Max THEN U32Max ELSE job.attempts + 1

\* A budget test that allows one attempt more than max_retries.
exhausted_late(job) == job.max_retries > 0 /\ next_attempt(job) > job.max_retries

exhausted(job) == job.max_retries > 0 /\ next_attempt(job) >= job.max_retries

\* mark_failed: the UPDATE of the row with the job's id.
mark_failed_row(r, job, error, retry_backoff_secs, now_ts) ==
    IF exhausted(job)
    THEN [r EXCEPT !.attempts = next_attempt(job), !.status = "failed",
                   !.last_error = error]
    ELSE [r EXCEPT !.attempts = next_attempt(job), !.status = "pending",
                   !.next_retry_ts = now_ts + retry_backoff_secs,
                   !.last_error = error]

mark_failed(rows, job, error, retry_backoff_secs, now_ts) ==
    { IF r.id = job.id
      THEN mark_failed_row(r, job, error, retry_backoff_secs, now_ts)
      ELSE r : r \in rows }

pending_count(rows) ==
    Cardinality({r \in rows : r.status \in {"pending", "in_progress"}})

failed_count(rows) == Cardinality({r \in rows : r.status = "failed"})

\* A retry that gives the revived rows a fresh retry budget.
retry_failed_resets(rows, now_ts) ==
    { IF r.status = "failed"
      THEN [r EXCEPT !.status = "pending", !.next_retry_ts = now_ts,
                     !.attempts = 0]
      ELSE r : r \in rows }

\* A retry that makes the rows pending and leaves their next_retry_ts.
retry_failed_keeps_time(rows, now_ts) ==
    { IF r.status = "failed" THEN [r EXCEPT !.status = "pending"] ELSE r :
      r \in rows }

\* retry_failed: UPDATE ... WHERE status = 'failed'
retry_failed(rows, now_ts) ==
    { IF r.status = "failed"
      THEN [r EXCEPT !.status = "pending", !.next_retry_ts = now_ts]
      ELSE r : r \in rows }

\* retry_failed returns the number of rows its UPDATE changed.
retry_failed_updated(rows) == Cardinality({r \in rows : r.status = "failed"})

(***************************************************************************)
(* queue.rs: claim_ready statement by statement, for callers that run at   *)
(* the same time.  Each call opens its own connection; the transaction is  *)
(* deferred: the SELECT takes the SHARED lock of the database file, the    *)
(* first UPDATE the RESERVED lock, the commit needs every other SHARED     *)
(* lock gone.  The writes of a transaction reach the table at its commit.  *)
(***************************************************************************)
\* The calls of claim_ready each caller makes.
MaxClaims == 2

\* A SELECT outside a transaction: its lock is gone when it returns.
held_after_select_autocommit == "none"

\* conn.unchecked_transaction(): the SHARED lock of the SELECT is held until
\* the transaction commits or rolls back.
held_after_select == "shared"

\* let tx = conn.unchecked_transaction()?; let jobs = SELECT ...
ClaimSelect(w) ==
    /\ up
    /\ claimers[w].pc = "idle"
    /\ claimers[w].calls < MaxClaims
    /\ claimers' = [claimers EXCEPT ![w] =
           [ pc |-> "selected", lock |-> held_after_select,
             jobs |-> claim_ready_jobs(queue, now, ClaimLimit),
             calls |-> @.calls + 1, result |-> "" ]]
    /\ UNCHANGED <<now, up, disk, proc, hist, claim_log, calc, enabled, retry_backoff>>

\* Whether caller w gets the RESERVED lock: one connection holds it at a time.
reserved_free(w) ==
    \A o \in ClaimWorkers \ {w} : claimers[o].lock # "reserved"

\* The error return: the transaction is dropped and rolls back.
ClaimFailed(w) ==
    [claimers[w] EXCEPT !.pc = "idle", !.lock = "none", !.result = "busy"]

\* for job in &jobs { tx.execute("UPDATE ... WHERE id = ?") ? }
\* The first UPDATE asks for RESERVED; a connection that holds SHARED while
\* another holds RESERVED is refused at once (SQLITE_BUSY).
ClaimUpdate(w) ==
    /\ up
    /\ claimers[w].pc = "selected"
    /\ claimers[w].jobs # <<>>
    /\ claimers' = [claimers EXCEPT ![w] =
           IF reserved_free(w)
           THEN [@ EXCEPT !.pc = "updated", !.lock = "reserved"]
           ELSE ClaimFailed(w)]
    /\ UNCHANGED <<now, up, disk, proc, hist, claim_log, calc, enabled, retry_backoff>>

\* The table after the UPDATEs of the jobs: no test of the status.
claim_updates(rows, jobs) ==
    LET ids == {jobs[i].id : i \in DOMAIN jobs}
    IN  { IF r.id \in ids THEN [r EXCEPT !.status = "in_progress"] ELSE r :
          r \in rows }

\* tx.commit()?; Ok(jobs).  A commit with writes waits for the SHARED locks
\* of the other connections; when the wait runs out it fails and the
\* transaction rolls back.
ClaimCommit(w) ==
    LET c == claimers[w]
        others_reading == \E o \in ClaimWorkers \ {w} : claimers[o].lock # "none"
    IN  /\ up
        /\ \/ c.pc = "updated"
           \/ c.pc = "selected" /\ c.jobs = <<>>
        /\ IF c.pc = "updated" /\ others_reading
           THEN /\ claimers' = [claimers EXCEPT ![w] = ClaimFailed(w)]
                /\ UNCHANGED <<queue, claim_log>>
           ELSE /\ claimers' = [claimers EXCEPT ![w] =
                       [@ EXCEPT !.pc = "idle", !.lock = "none", !.result = "ok"]]
                /\ queue' = claim_updates(queue, c.jobs)
                /\ claim_log' = claim_log \cup
                       { [worker |-> w, call |-> c.calls, id |-> c.jobs[i].id] :
                         i \in DOMAIN c.jobs }
        /\ UNCHANGED <<now, up, inodes, tmp_dir, final_dir, sidecars, replica,
                       next_id, proc, hist, calc, enabled, retry_backoff>>

\* An INSERT takes effect when no other connection holds a lock.
DbUnlocked == \A w \in ClaimWorkers : claimers[w].lock = "none"

(***************************************************************************)
(* replicator.rs: run_once, process_job, copy_to_local                     *)
(***************************************************************************)
\* run_once: claim_ready(32).  A run that claims nothing changes nothing.
RunOnce ==
    /\ up
    /\ rep.pc = "sleep"
    /\ ReadyRows(queue, now) # {}
    /\ rep' = [pc |-> "batch", batch |-> claim_ready_jobs(queue, now, ClaimLimit)]
    /\ queue' = claim_ready_rows(queue, now, ClaimLimit)
    /\ UNCHANGED <<now, up, claim, inodes, tmp_dir, final_dir, sidecars, replica,
                   next_id, updates_writer, ribs_last, last_rib_bucket, locks,
                   failures, dest_order, task, hist>>

\* process_job: "" when it returns Ok, else the error.  `reachable` is whether
\* the destination takes the two copies.
process_job(job, reachable) ==
    IF job.destination_key \notin DestKeys THEN "destination not found"
    ELSE IF sidecars[job.segment_path] = None THEN "failed reading manifest"
    ELSE IF final_dir[job.segment_path] = 0 \/ ~reachable THEN "failed copying"
    ELSE ""

\* retry_backoff_secs of the job's destination, 5 when it is not in the map.
retry_secs(job) ==
    IF job.destination_key \in DestKeys
    THEN Destinations[job.destination_key].retry_backoff_secs
    ELSE DefaultRetrySecs

\* Whether the destination takes the copy this time.
\* A refusal is considered while the retry it causes falls within the time
\* modelled.
ReachChoices ==
    IF budget.unreachable < MaxUnreachable /\ now + RetryBackoff <= MaxTime
    THEN {TRUE, FALSE}
    ELSE {TRUE}

\* AtomicU64::fetch_add: the sum wraps around.
fetch_add(counter, k) == (counter + k) % (2 ^ FailureBits)

\* History: one attempt of the replicator on a job, and its outcome.  The
\* attempts of a job are numbered as far as the attempts of a row count.
Attempt(job, ok) ==
    LET seen == Cardinality({a \in attempt_log : a.id = job.id})
    IN  [ id |-> job.id, path |-> job.segment_path,
          destination_key |-> job.destination_key, ok |-> ok, at |-> now,
          n |-> IF seen >= U32Max THEN U32Max ELSE seen + 1 ]

\* run_once, Err arm of process_job: count the failure, mark_failed, emit.
JobFails(job, err) ==
    /\ failures' = fetch_add(failures, 1)
    /\ queue' = mark_failed(queue, job, err, retry_secs(job), now)
    /\ events' = emit(events, ReplicationFailed(
           job.destination_key, job.segment_path))
    /\ attempt_log' = attempt_log \cup {Attempt(job, FALSE)}

\* run_once, after process_job returned Ok: mark_success, emit.
JobSucceeds(job) ==
    /\ attempt_log' = attempt_log \cup {Attempt(job, TRUE)}
    /\ queue' = mark_success(queue, job.id)
    /\ events' = emit(events, ReplicationSucceeded(
           job.destination_key, job.segment_path))

\* A loop that ends at the first job it has handled.
RepAfterJobBreaks == IdleRep

\* The replicator after the job at the head of its batch.
RepAfterJob ==
    IF Tail(rep.batch) = <<>> THEN IdleRep
    ELSE [pc |-> "batch", batch |-> Tail(rep.batch)]

\* What a refused copy costs of the refusals considered.
AfterReach(job, reachable) ==
    IF process_job(job, TRUE) = "" /\ ~reachable
    THEN [budget EXCEPT !.unreachable = @ + 1]
    ELSE budget

\* run_once: the body of the loop for the next job of the batch.
ProcessJob ==
    /\ up
    /\ rep.pc = "batch"
    /\ LET job == Head(rep.batch)
       IN  /\ rep' = RepAfterJob
           /\ \E reachable \in ReachChoices :
              LET err == process_job(job, reachable)
              IN  /\ budget' = AfterReach(job, reachable)
                  /\ IF err = ""
                     THEN /\ replica' = [replica EXCEPT
                                 ![job.destination_key][job.segment_path] =
                                     [ segment |-> Some(inodes[final_dir[job.segment_path]]),
                                       manifest |-> sidecars[job.segment_path] ]]
                          /\ JobSucceeds(job)
                          /\ UNCHANGED failures
                     ELSE /\ JobFails(job, err)
                          /\ UNCHANGED replica
    /\ UNCHANGED <<now, up, claim, inodes, tmp_dir, final_dir, sidecars, next_id,
                   updates_writer, ribs_last, last_rib_bucket, locks,
                   dest_order, task, finalized_log, enqueue_log>>

(***************************************************************************)
(* The same loop body statement by statement: process_job up to the first  *)
(* copy, fs::copy of the segment, fs::copy of the manifest, mark_success.  *)
(***************************************************************************)
\* process_job: destination lookup, manifest read and parse, create_dir_all.
\* An error ends the job as in run_once; otherwise the copies follow.
CopyBegin ==
    /\ up
    /\ rep.pc = "batch"
    /\ LET job == Head(rep.batch)
       IN  \E reachable \in ReachChoices :
              LET err == process_job(job, reachable)
              IN  /\ budget' = AfterReach(job, reachable)
                  /\ IF err = ""
                     THEN /\ rep' = [rep EXCEPT !.pc = "copy_segment"]
                          /\ UNCHANGED <<failures, queue, events, attempt_log>>
                     ELSE /\ JobFails(job, err)
                          /\ rep' = RepAfterJob
    /\ UNCHANGED <<now, up, claim, inodes, tmp_dir, final_dir, sidecars, replica,
                   next_id, updates_writer, ribs_last, last_rib_bucket, locks,
                   dest_order, task, finalized_log, enqueue_log>>

\* copy_to_local: fs::copy(&job.segment_path, &target_segment) reads the file
\* that is at the final path now.
CopySegment ==
    /\ up
    /\ rep.pc = "copy_segment"
    /\ LET job == Head(rep.batch)
       IN  replica' = [replica EXCEPT
               ![job.destination_key][job.segment_path].segment =
                   Some(inodes[final_dir[job.segment_path]])]
    /\ rep' = [rep EXCEPT !.pc = "copy_manifest"]
    /\ UNCHANGED <<now, up, claim, inodes, tmp_dir, final_dir, sidecars, queue,
                   next_id, updates_writer, ribs_last, last_rib_bucket, locks,
                   failures, dest_order, task, hist>>

\* copy_to_local: fs::copy(&job.manifest_path, &target_manifest) reads the
\* sidecar that is there now.
CopyManifest ==
    /\ up
    /\ rep.pc = "copy_manifest"
    /\ LET job == Head(rep.batch)
       IN  replica' = [replica EXCEPT
               ![job.destination_key][job.segment_path].manifest =
                   sidecars[job.segment_path]]
    /\ rep' = [rep EXCEPT !.pc = "mark"]
    /\ UNCHANGED <<now, up, claim, inodes, tmp_dir, final_dir, sidecars, queue,
                   next_id, updates_writer, ribs_last, last_rib_bucket, locks,
                   failures, dest_order, task, hist>>

\* run_once: process_job returned Ok; mark_success(job.id) and the event.
MarkSuccess ==
    /\ up
    /\ rep.pc = "mark"
    /\ JobSucceeds(Head(rep.batch))
    /\ rep' = RepAfterJob
    /\ UNCHANGED <<now, up, claim, inodes, tmp_dir, final_dir, sidecars, replica,
                   next_id, updates_writer, ribs_last, last_rib_bucket, locks,
                   failures, dest_order, task, finalized_log, enqueue_log, budget>>

\* retry_failed_replications -> Replicator::retry_failed -> queue.retry_failed
RetryFailedReplications ==
    /\ up
    /\ budget.ops < MaxOps
    /\ failed_count(queue) > 0
    /\ queue' = retry_failed(queue, now)
    /\ budget' = Started
    /\ UNCHANGED <<now, up, claim, inodes, tmp_dir, final_dir, sidecars, replica,
                   next_id, proc, events, finalized_log, enqueue_log, attempt_log>>

\* ReplicationQueue::enqueue called directly: a row for any destination key and
\* retry budget, as a run under an earlier configuration leaves behind.
EnqueueDirect(segment_path, destination_key, max_retries) ==
    /\ up
    /\ budget.ops < MaxOps
    /\ queue' = queue \cup
           {NewRow(next_id, segment_path, destination_key, max_retries)}
    /\ next_id' = next_id + 1
    /\ budget' = Started
    /\ UNCHANGED <<now, up, claim, inodes, tmp_dir, final_dir, sidecars, replica,
                   proc, events, finalized_log, enqueue_log, attempt_log>>

(***************************************************************************)
(* mod.rs: status                                                          *)
(***************************************************************************)
\* status: let updates_guard = self.updates_writer.lock().await
StatusCall(t) ==
    /\ CanStart(t)
    /\ locks.updates_writer = Free
    /\ locks' = [locks EXCEPT !.updates_writer = t]
    /\ task' = [task EXCEPT ![t] =
           [NewCall("status", now, [stream |-> "status"]) EXCEPT
               !.pc = "status_ribs"]]
    /\ budget' = Started
    /\ UNCHANGED <<now, up, claim, disk, updates_writer, ribs_last,
                   last_rib_bucket, failures, dest_order, rep, events,
                   finalized_log, enqueue_log, attempt_log>>

\* status: let ribs_guard = self.ribs_last.lock().await, the first guard
\* being held.
StatusLockRibs(t) ==
    /\ up
    /\ task[t].pc = "status_ribs"
    /\ locks.ribs_last = Free
    /\ locks' = [locks EXCEPT !.ribs_last = t]
    /\ task' = [task EXCEPT ![t].pc = "status_read"]
    /\ UNCHANGED <<now, up, claim, disk, updates_writer, ribs_last,
                   last_rib_bucket, failures, dest_order, rep, hist>>

\* The ArchiveStatus built under the two guards: queued is
\* queue.pending_count(), failures is Replicator::failures(), the counter of
\* the process.  rows_queued and rows_failed are history: the rows of the
\* table in those states when the figures were read.
ArchiveStatus ==
    [ updates_open_path |->
          IF updates_writer = None THEN None
          ELSE Some(Get(updates_writer).path),
      updates_record_count |->
          IF updates_writer = None THEN 0
          ELSE Get(updates_writer).record_count,
      ribs_last_path |->
          IF ribs_last = None THEN None ELSE Some(Get(ribs_last).final_path),
      ribs_last_record_count |->
          IF ribs_last = None THEN 0 ELSE Get(ribs_last).record_count,
      queued_replication_jobs |-> pending_count(queue),
      replication_failures |-> failures,
      rows_queued |->
          Cardinality({r \in queue : r.status \in {"pending", "in_progress"}}),
      rows_failed |-> Cardinality({r \in queue : r.status = "failed"}) ]

\* status: read the queue and the counter, build the ArchiveStatus, return;
\* both guards are dropped.
StatusRead(t) ==
    /\ up
    /\ task[t].pc = "status_read"
    /\ task' = [task EXCEPT ![t] =
           [Done(task[t], "ok") EXCEPT !.report = Some(ArchiveStatus)]]
    /\ locks' = ReleaseAll(t)
    /\ UNCHANGED <<now, up, claim, disk, updates_writer, ribs_last,
                   last_rib_bucket, failures, dest_order, rep, hist>>

(***************************************************************************)
(* The process is killed; the daemon is started again (ArchiveService::new)*)
(***************************************************************************)
Crash ==
    /\ up
    /\ budget.ops < MaxOps
    /\ up' = FALSE
    /\ updates_writer' = None
    /\ ribs_last' = None
    /\ last_rib_bucket' = None
    /\ locks' = [l \in LockNames |-> Free]
    /\ failures' = 0
    /\ task' = [t \in Tasks |-> IdleTask]
    /\ rep' = IdleRep
    /\ budget' = [budget EXCEPT !.crashes = @ + 1, !.ops = @ + 1]
    /\ claimers' = [w \in ClaimWorkers |-> IdleClaimer]
    /\ UNCHANGED <<now, disk, dest_order, events, finalized_log, enqueue_log,
                   attempt_log, claim_log, calc, enabled, retry_backoff>>

\* layout.rs: a segment's tmp_path is tmp_root joined with the relative path
\* (its file name changed), which has parent directories in the routeviews
\* and ris layouts: it is no direct child of the tmp root.
TmpIsDirectChild(path) == FALSE

\* cleanup_tmp_root: remove the files directly under the tmp root.
cleanup_tmp_root(dir) ==
    [p \in Paths |-> IF TmpIsDirectChild(p) THEN 0 ELSE dir[p]]

\* ArchiveService::new with the archive enabled: cleanup_tmp_root,
\* ReplicationQueue::new (CREATE TABLE IF NOT EXISTS), Replicator::new,
\* ensure_updates_writer(now), spawn_background_tasks.
Restart ==
    LET paths == segment_paths("updates", now)
        cleaned == cleanup_tmp_root(tmp_dir)
    IN  /\ ~up
        /\ up' = TRUE
        /\ dest_order' \in Orders(AsyncReplicas)
        /\ events' = emit(events, Opened(paths))
        /\ inodes' = IF cleaned[paths] # 0
                     THEN [inodes EXCEPT ![cleaned[paths]] = <<>>]
                     ELSE Append(inodes, <<>>)
        /\ tmp_dir' = [cleaned EXCEPT ![paths] =
                          IF cleaned[paths] # 0 THEN cleaned[paths]
                          ELSE Len(inodes) + 1]
        /\ updates_writer' =
               Some([ stream |-> "updates",
                      start_ts |-> aligned_epoch(now, UpdatesInterval),
                      path |-> paths, ino |-> tmp_dir'[paths], recs |-> <<>>,
                      record_count |-> 0, ok_writes |-> 0,
                      failed_writes |-> 0 ])
        /\ UNCHANGED <<now, final_dir, sidecars, replica, queue, next_id,
                       ribs_last, last_rib_bucket, locks, failures, task, rep,
                       finalized_log, enqueue_log, attempt_log, budget, claim>>

(***************************************************************************)
(* The steps of the service's tasks.                                       *)
(***************************************************************************)
Finalize(t) == FinFinish(t) \/ FinRename(t) \/ FinHash(t) \/ FinSidecar(t)

\* Ingest by the BGP sessions, rollover(Updates) by a control client, and
\* the scheduler.
NextUpdates ==
    \/ \E t \in Sessions, u \in IngestInputs : Ingest(t, u)
    \/ \E t \in Sessions : IngestWrite(t)
    \/ RolloverUpdates("ctl1")
    \/ RotateEnsure("ctl1")
    \/ Tick
    \/ TickRib
    \/ \E t \in Tasks : Finalize(t)
    \/ \E t \in Tasks : AfterFinalize(t)
    \/ ClockAdvance

SpecUpdates == Init /\ [][NextUpdates]_vars

\* RIB snapshots by two control clients and the scheduler.
NextRibs ==
    \/ \E t \in Clients, i \in SnapshotInputs : SnapshotNow(t, i)
    \/ \E t \in Clients : RolloverRibs(t)
    \/ Tick
    \/ TickRib
    \/ \E t \in Tasks : Finalize(t)
    \/ \E t \in Tasks : AfterFinalize(t)
    \/ ClockAdvance

SpecRibs == Init /\ [][NextRibs]_vars

\* The service with its replicator, process kills and restarts.
NextRepl ==
    \/ RolloverUpdates("ctl1")
    \/ RotateEnsure("ctl1")
    \/ RolloverRibs("ctl1")
    \/ \E t \in Tasks : Finalize(t)
    \/ \E t \in Tasks : AfterFinalize(t)
    \/ RunOnce
    \/ ProcessJob
    \/ Crash
    \/ Restart
    \/ ClockAdvance

SpecRepl == Init /\ [][NextRepl]_vars

\* The replicator loop runs for ever (spawn), started calls run to their end
\* on the runtime, a killed daemon is started again, and time passes.
FairRepl ==
    /\ WF_vars(RunOnce)
    /\ WF_vars(ProcessJob)
    /\ WF_vars(Restart)
    /\ WF_vars(RotateEnsure("ctl1"))
    /\ WF_vars(\E t \in Tasks : Finalize(t))
    /\ WF_vars(\E t \in Tasks : AfterFinalize(t))
    /\ WF_vars(ClockAdvance)

SpecReplFair == SpecRepl /\ FairRepl

\* The paths a direct enqueue names: those of the RIB stream.
DirectPaths == {p \in Paths : p[1] = "ribs"}

\* The queue and the replicator: rows from enqueue_segment and from direct
\* enqueue calls, and operator retries.
NextQueue ==
    \/ \E p \in DirectPaths, d \in AsyncReplicas \cup {GoneDest},
          m \in 0 .. ReplicaMaxRetries : EnqueueDirect(p, d, m)
    \/ RolloverRibs("ctl1")
    \/ \E t \in Tasks : Finalize(t)
    \/ \E t \in Tasks : AfterFinalize(t)
    \/ RunOnce
    \/ ProcessJob
    \/ RetryFailedReplications
    \/ ClockAdvance

SpecQueue == Init /\ [][NextQueue]_vars

\* tests/archive_integration.rs: a freshly started service ingests valid
\* records, one call after the other, all in the bucket of the first, and
\* then rollover(Updates) is called once.
Feeder == "bgp1"
Operator == "ctl1"

RotationIngest(u) ==
    /\ u.valid
    /\ task[Operator].pc = "idle" /\ task[Operator].result = ""
    /\ budget.ops = 0 \/
          /\ task[Feeder].result = "ok"
          /\ updates_writer # None
          /\ aligned_epoch(u.timestamp, UpdatesInterval) =
                 Get(updates_writer).start_ts
    /\ Ingest(Feeder, u)

RotationRollover ==
    /\ task[Feeder].pc = "idle" /\ task[Feeder].result = "ok"
    /\ task[Operator].result = ""
    /\ RolloverUpdates(Operator)

NextRotation ==
    \/ \E u \in IngestInputs : RotationIngest(u)
    \/ IngestWrite(Feeder)
    \/ RotationRollover
    \/ RotateEnsure(Operator)
    \/ \E t \in {Feeder, Operator} : Finalize(t)
    \/ \E t \in {Feeder, Operator} : AfterFinalize(t)
    \/ ClockAdvance

SpecRotation == Init /\ [][NextRotation]_vars

\* The replicator copying statement by statement while RIB snapshots of one
\* bucket are taken.
NextCopy ==
    \/ \E t \in Clients : RolloverRibs(t)
    \/ \E t \in Tasks : Finalize(t)
    \/ \E t \in Tasks : AfterFinalize(t)
    \/ RunOnce
    \/ CopyBegin
    \/ CopySegment
    \/ CopyManifest
    \/ MarkSuccess
    \/ ClockAdvance

SpecCopy == Init /\ [][NextCopy]_vars

\* Rotations and snapshots whose finalize can fail at any of its steps.
NextFinalize ==
    \/ RolloverUpdates(Operator)
    \/ RotateEnsure(Operator)
    \/ RolloverRibs(Operator)
    \/ Tick
    \/ TickRib
    \/ \E t \in {Operator, Sched} : Finalize(t)
    \/ \E t \in {Operator, Sched} : FinalizeFails(t)
    \/ \E t \in {Operator, Sched} : AfterFinalize(t)
    \/ ClockAdvance

SpecFinalize == Init /\ [][NextFinalize]_vars

\* status called by an operator while rows are enqueued, the replicator
\* works and failed jobs are retried.
NextStatus ==
    \/ \E d \in AsyncReplicas \cup {GoneDest}, m \in {0, ReplicaMaxRetries} :
          EnqueueDirect(segment_paths("ribs", 0), d, m)
    \/ RolloverRibs(Operator)
    \/ Finalize(Operator)
    \/ AfterFinalize(Operator)
    \/ RunOnce
    \/ ProcessJob
    \/ RetryFailedReplications
    \/ StatusCall("ctl2")
    \/ StatusLockRibs("ctl2")
    \/ StatusRead("ctl2")
    \/ ClockAdvance

SpecStatus == Init /\ [][NextStatus]_vars

\* Two callers of claim_ready on one table, while rows are enqueued.
NextClaim ==
    \/ \E p \in DirectPaths, d \in AsyncReplicas, m \in {0, ReplicaMaxRetries} :
          DbUnlocked /\ EnqueueDirect(p, d, m)
    \/ \E w \in ClaimWorkers : ClaimSelect(w)
    \/ \E w \in ClaimWorkers : ClaimUpdate(w)
    \/ \E w \in ClaimWorkers : ClaimCommit(w)
    \/ ClockAdvance

SpecClaim == Init /\ [][NextClaim]_vars

(***************************************************************************)
(* Properties.                                                             *)
(***************************************************************************)
\* The writers that exist: the open updates writer and the ones held by a
\* call that is finalizing them.
LiveWriters ==
    (IF updates_writer = None THEN {} ELSE {Get(updates_writer)}) \cup
    {Get(task[t].w) : t \in {x \in Tasks : task[x].w # None}}

FinalizedSegments == {finalized_log[i] : i \in DOMAIN finalized_log}

\* C1: every segment file visible at a final path is complete (its
\* compression stream was finished) and its bytes hash to the sha256 in the
\* manifest sidecar next to it; otherwise the file does not exist.
SegmentVisibleCompleteAndHashed ==
    \A p \in Paths :
        final_dir[p] # 0 =>
            /\ Complete(inodes[final_dir[p]])
            /\ sidecars[p] # None
            /\ Get(sidecars[p]).sha256 = compute_sha256(inodes[final_dir[p]])

\* C4: for every segment whose finalizing call is past enqueue_segment,
\* exactly one job was enqueued for each async_replica destination and none
\* for a primary destination.
OneJobPerAsyncReplica ==
    \A seg \in FinalizedSegments :
        LET by == task[seg.by]
            enqueueing == by.pc = "post" /\ by.seg # None /\ Get(by.seg).fid = seg.fid
            rows(d) == {e \in enqueue_log : e.fid = seg.fid /\ e.destination_key = d}
        IN  ~enqueueing =>
               \A d \in DestKeys :
                  Cardinality(rows(d)) =
                     IF Destinations[d].mode = "async_replica" THEN 1 ELSE 0

\* C5: the record_count of every finalized segment, of its manifest and of
\* every writer equals the number of write_record calls that returned Ok on
\* the writer; a failed write_record does not count.
RecordCountExact ==
    /\ \A w \in LiveWriters :
          w.record_count = w.ok_writes /\ w.record_count = Len(w.recs)
    /\ \A seg \in FinalizedSegments : seg.record_count = seg.ok_writes
    /\ \A p \in Paths :
          sidecars[p] # None =>
             \E seg \in FinalizedSegments :
                /\ seg.final_path = p
                /\ Get(sidecars[p]).record_count = seg.ok_writes

\* A finalized updates segment on whose writer a write_record failed, and an
\* open writer with a record written.
RecordCountExactWitness ==
    /\ \E seg \in FinalizedSegments :
          seg.stream = "updates" /\ seg.failed_writes >= 1
    /\ updates_writer # None
    /\ Get(updates_writer).record_count >= 1

\* C6: an ingest call that returned the Encode error has not taken the open
\* updates writer: nothing was finalized by it and the same segment stays
\* open, whatever the timestamp of the rejected input.
EncodeErrorLeavesWriter ==
    \A t \in Sessions : task[t].result = "Encode" => ~task[t].took_writer

\* C7: every record in an updates writer lies in the writer's bucket: the
\* writer's start_ts is aligned(timestamp, updates_interval_secs).
RecordsInOwnBucket ==
    \A w \in LiveWriters :
        w.stream = "updates" =>
            \A i \in DOMAIN w.recs :
                aligned_epoch(w.recs[i][2], UpdatesInterval) = w.start_ts

\* C2: every segment published under the archive root is eventually copied,
\* segment and manifest, to every async_replica destination that retries for
\* ever (max_retries = 0), under fair scheduling, process kills included.
PublishedEventuallyReplicated ==
    \A p \in Paths :
        \A d \in RetryForEver :
            (final_dir[p] # 0) ~> (replica[d][p].segment # None /\ replica[d][p].manifest # None)

\* The time at which row r is ready, if it is pending.
ReadyTime(r) == IF r.next_retry_ts > now THEN r.next_retry_ts ELSE now

\* C3: after a kill and a restart, between two runs of the replicator, every
\* job that pending_count counts is returned by a later claim_ready.
CountedJobsClaimableAfterRestart ==
    (up /\ budget.crashes >= 1 /\ rep.pc = "sleep") =>
        \A r \in queue :
            r.status \in {"pending", "in_progress"} =>
                r \in ClaimedRows(queue, ReadyTime(r), ClaimLimit)

OthersKept(r, rows2) == {x \in rows2 : x.id # r.id} = queue \ {r}

\* C9: mark_failed on a job with attempts = a makes the row failed with
\* attempts a+1 and last_error = error (next_retry_ts as it was) when
\* max_retries > 0 and a+1 >= max_retries; otherwise pending with attempts a+1,
\* last_error = error and next_retry_ts = now + backoff.
MarkFailedContract ==
    \A r \in queue : \A backoff \in {0, RetryBackoff, DefaultRetrySecs} :
        LET a == r.attempts
            rows2 == mark_failed(queue, JobOf(r), "error", backoff, now)
            want == IF r.max_retries > 0 /\ a + 1 >= r.max_retries
                    THEN [r EXCEPT !.status = "failed", !.attempts = a + 1,
                                   !.last_error = "error"]
                    ELSE [r EXCEPT !.status = "pending", !.attempts = a + 1,
                                   !.last_error = "error",
                                   !.next_retry_ts = now + backoff]
        IN  want \in rows2 /\ OthersKept(r, rows2)

\* After the first failure of a job with max_retries = 0 it is pending with
\* attempts = 1 and next_retry_ts = now + backoff, and a job with a budget has
\* been moved to failed.
MarkFailedWitness ==
    /\ \E r \in queue :
          /\ r.max_retries = 0 /\ r.status = "pending" /\ r.attempts = 1
          /\ r.destination_key \in DestKeys
          /\ r.next_retry_ts = now + RetryBackoff
    /\ \E r \in queue :
          r.max_retries > 0 /\ r.status = "failed" /\ r.attempts = r.max_retries

\* The failed attempts made on the job of row id.
Failures(id) == {a \in attempt_log : a.id = id /\ ~a.ok}

RetryBudgetState ==
    \A r \in queue :
        LET n == Cardinality(Failures(r.id))
            m == r.max_retries
        IN  /\ r.attempts = n
            /\ (m = 0 \/ n < m) => r.status # "failed"
            /\ (n >= 1 /\ (m = 0 \/ n < m)) =>
                  \A a \in Failures(r.id) :
                      r.next_retry_ts >= a.at + retry_secs(JobOf(r))

RetryBudgetStep ==
    \A r \in queue :
        Failures(r.id)' # Failures(r.id) =>
            \E r2 \in queue' :
                /\ r2.id = r.id
                /\ IF r.max_retries > 0 /\
                      Cardinality(Failures(r.id)') >= r.max_retries
                   THEN r2.status = "failed"
                   ELSE /\ r2.status = "pending"
                        /\ r2.next_retry_ts >= now + retry_secs(JobOf(r))

MaxLimit == 2

ClaimLimits == (0 .. MaxLimit) \cup {ClaimLimit}

\* C11: claim_ready(limit) returns, in ascending id order, exactly the
\* min(limit, k) lowest-id rows among the k rows that are pending with
\* next_retry_ts <= now, sets exactly those rows to in_progress and leaves
\* every other row as it was; in_progress, failed and not-yet-due rows are
\* never returned.
ClaimReadyContract ==
    \A limit \in ClaimLimits :
        LET due == {r \in queue : r.status = "pending" /\ r.next_retry_ts <= now}
            k == Cardinality(due)
            jobs == claim_ready_jobs(queue, now, limit)
            ids == {jobs[i].id : i \in DOMAIN jobs}
        IN  /\ Len(jobs) = IF limit < k THEN limit ELSE k
            /\ \A i \in 1 .. Len(jobs) - 1 : jobs[i].id < jobs[i + 1].id
            /\ \A i \in DOMAIN jobs : \E r \in due : jobs[i] = JobOf(r)
            /\ \A r \in due : r.id \notin ids => \A i \in ids : i < r.id
            /\ claim_ready_rows(queue, now, limit) =
                  { IF r.id \in ids THEN [r EXCEPT !.status = "in_progress"]
                    ELSE r : r \in queue }

\* Two rows are due, so that a limit of 1 leaves one behind, next to a row
\* that failed once and is not due yet.
ClaimReadyWitness ==
    /\ Cardinality(ReadyRows(queue, now)) >= 2
    /\ \E r \in queue :
          r.status = "pending" /\ r.next_retry_ts > now /\ r.attempts >= 1

\* The claim_ready calls that returned the job of row id.
Handed(id) == {c \in claim_log : c.id = id}

\* C12: when several callers run claim_ready at the same time, their SELECT,
\* UPDATE and commit steps interleaved, no job is returned to more than one
\* call, and a row in in_progress was returned by exactly one call.
ExclusiveClaim ==
    /\ \A c1, c2 \in claim_log : c1.id = c2.id => c1 = c2
    /\ \A r \in queue : r.status = "in_progress" => Cardinality(Handed(r.id)) = 1

\* Two callers selected the same job inside their transactions; one of them
\* committed and returned it, the other was refused and returned the error.
ExclusiveClaimWitness ==
    \E w1, w2 \in ClaimWorkers :
        /\ w1 # w2
        /\ claimers[w1].result = "ok" /\ claimers[w1].pc = "idle"
        /\ claimers[w2].result = "busy" /\ claimers[w2].pc = "idle"
        /\ claimers[w1].calls = 1 /\ claimers[w2].calls = 1
        /\ claimers[w1].jobs # <<>>
        /\ claimers[w1].jobs = claimers[w2].jobs
        /\ \A i \in DOMAIN claimers[w1].jobs :
              Handed(claimers[w1].jobs[i].id) =
                  {[worker |-> w1, call |-> 1, id |-> claimers[w1].jobs[i].id]}

\* The rows removed from the table by the step.
Removed == {r \in queue : \A x \in queue' : x.id # r.id}

\* C13: a job is removed (mark_success) only after the segment and its
\* manifest were both copied to the destination; when run_once removes a job
\* both destination files exist and are byte-identical to the source files.
RemovedOnlyWhenCopied ==
    [][ \A r \in Removed :
           LET copy == replica'[r.destination_key][r.segment_path]
           IN  /\ copy.segment # None /\ copy.manifest # None
               /\ final_dir'[r.segment_path] # 0
               /\ Get(copy.segment) = inodes'[final_dir'[r.segment_path]]
               /\ copy.manifest = sidecars'[r.segment_path] ]_vars

\* C14: retry_failed moves every failed row to pending with next_retry_ts =
\* now and returns the number of rows moved; afterwards failed_count is 0 and
\* each moved job is returned by the next claim_ready, within its limit;
\* pending and in_progress rows are left as they are.
RetryFailedContract ==
    LET was_failed == {r \in queue : r.status = "failed"}
        rows2 == retry_failed(queue, now)
    IN  /\ retry_failed_updated(queue) = Cardinality(was_failed)
        /\ failed_count(rows2) = 0
        /\ rows2 = (queue \ was_failed) \cup
              {[r EXCEPT !.status = "pending", !.next_retry_ts = now] :
                   r \in was_failed}
        /\ \A r \in was_failed : \A limit \in ClaimLimits :
              LET jobs == claim_ready_jobs(rows2, now, limit)
                  before == {x \in rows2 : /\ x.status = "pending"
                                           /\ x.next_retry_ts <= now
                                           /\ x.id < r.id}
              IN  Cardinality(before) < limit =>
                      \E i \in DOMAIN jobs : jobs[i].id = r.id

\* retry_failed_replications, called some time after the last attempt, moved
\* a row whose budget was used up back to pending, due at the time of the call.
RetryFailedWitness ==
    \E r \in queue :
        /\ r.status = "pending"
        /\ r.max_retries > 0 /\ r.attempts >= r.max_retries
        /\ r.next_retry_ts >= 1
        /\ r.next_retry_ts <= now

\* rollover(Updates) returned Ok after every ingest returned Ok.
RotationDone ==
    /\ task[Operator].pc = "idle" /\ task[Operator].result = "ok"
    /\ task[Feeder].pc = "idle" /\ task[Feeder].result = "ok"
    /\ budget.faults = 0

\* C15: a freshly started service ingests n >= 1 valid UPDATEs whose
\* timestamps lie in one bucket (not necessarily the bucket of the wall
\* clock) and then rollover(Updates) is called: the archive root holds
\* exactly one finalized segment file and exactly one manifest, and the
\* manifest's record_count is n.
RotationLeavesOneSegment ==
    RotationDone =>
        LET segments == {p \in Paths : final_dir[p] # 0}
            manifests == {p \in Paths : sidecars[p] # None}
        IN  /\ Cardinality(segments) = 1
            /\ Cardinality(manifests) = 1
            /\ \A p \in manifests :
                  Get(sidecars[p]).record_count = budget.ops - 1

\* The records of a table dump of r routes: the peer-index table, then the
\* routes in input order.
IsTableDump(recs, r) ==
    /\ Len(recs) = 1 + r
    /\ recs[1][1] = "peer_index_table"
    /\ \A i \in 1 .. r :
          recs[1 + i][1] = "rib_ipv4_unicast" /\ recs[1 + i][3] = i

\* Task t's snapshot_now returns Ok in this step.
SnapshotReturns(t) ==
    /\ task[t].pc = "post" /\ task[t].ctx = "snapshot"
    /\ task'[t].pc = "idle" /\ task'[t].result = "ok"

\* C16: a successful snapshot_now with r routes finalizes a RIB segment with
\* record_count exactly 1 + r (the peer-index table first, then one RIB record
\* per route in input order); an empty snapshot gives record_count 1; the
\* segment returned is stored as the last RIB segment, which status reports.
SnapshotContract ==
    /\ [](\A input \in [timestamp : Times, routes : 0 .. MaxRoutes + 1,
                        valid : {TRUE}] :
              IsTableDump(build_table_dump_v2(input), input.routes))
    /\ [][ \A t \in Tasks :
              SnapshotReturns(t) =>
                  LET seg == Get(task[t].seg)
                      r == Get(task[t].input).routes
                  IN  /\ seg.stream = "ribs"
                      /\ seg.record_count = 1 + r
                      /\ IsTableDump(Get(task[t].w).recs, r)
                      /\ ribs_last' = Some(seg) ]_vars

\* A snapshot with a route was finalized with two records and is the last RIB
\* segment, after an empty snapshot had been finalized with one.
SnapshotWitness ==
    /\ ribs_last # None
    /\ Get(ribs_last).record_count = 2
    /\ \E i \in DOMAIN finalized_log :
          /\ finalized_log[i].stream = "ribs"
          /\ finalized_log[i].record_count = 1
          /\ finalized_log[i].fid < Get(ribs_last).fid

\* The mutexes of the service task t holds.
HeldBy(t) == {l \in LockNames : locks[l] = t}

\* C17: at every point of every service operation (ingest_update,
\* ingest_peer_state, rollover, snapshot_now, status, tick) the calling task
\* holds at most one of the three mutexes updates_writer, ribs_last and
\* last_rib_bucket.
AtMostOneLockHeld == \A t \in Tasks : Cardinality(HeldBy(t)) <= 1

\* C20: status reports the job counts of the queue as of the call:
\* queued_replication_jobs is the number of rows pending or in_progress, and
\* replication_failures is the number of rows in status failed, after any
\* sequence of enqueue, replicator runs and retry_failed_replications.
StatusCountsRows ==
    \A t \in Tasks :
        task[t].report # None =>
            LET st == Get(task[t].report)
            IN  /\ st.queued_replication_jobs = st.rows_queued
                /\ st.replication_failures = st.rows_failed

\* Task t's call of finalize returns an error in this step.
FinalizeErrs(t) ==
    /\ task[t].pc \in FinalizeSteps
    /\ task'[t].pc = "idle" /\ task'[t].result = "Io"

\* C18: whenever finalize returns an error, at whichever step (finish, fsync,
\* rename, hashing, writing the manifest), the writer's tmp file is still in
\* place and no file has been published at the final path.
FinalizeErrorPublishesNothing ==
    [][ \A t \in Tasks :
           FinalizeErrs(t) =>
               LET w == Get(task[t].w)
               IN  /\ tmp_dir'[w.path] = w.ino
                   /\ final_dir'[w.path] # w.ino ]_vars

\* C19: when write_record fails inside ingest the error is returned and the
\* segment is abandoned: the writer is not finalized to a final path (its tmp
\* file stays until the next startup) and no further record is appended to it.
WriteErrorAbandonsSegment ==
    \A seg \in FinalizedSegments :
        seg.failed_writes >= 1 => final_dir[seg.final_path] = 0

(***************************************************************************)
(* layout.rs: aligned_epoch on the machine integers.                       *)
(*                                                                         *)
(* The timestamp is an i64 and the interval a u32 widened to i64.  The     *)
(* model keeps the two's complement arithmetic and scales the width:       *)
(* TimestampBits bits stand for the 64 of an i64.                          *)
(***************************************************************************)
TimestampBits == 6
MaxInterval == 7

I64Min == 0 - 2 ^ (TimestampBits - 1)
I64Max == 2 ^ (TimestampBits - 1) - 1
I64 == I64Min .. I64Max
Intervals == 1 .. MaxInterval

\* i64::wrapping_sub: what `a - b` gives when overflow checks are off.
wrapping_sub(a, b) == ((a - b - I64Min) % (2 ^ TimestampBits)) + I64Min

\* aligned_epoch's `timestamp - timestamp.rem_euclid(interval)`: the
\* subtraction is the plain `-` of i64.  When the exact difference is below
\* i64::MIN the operation overflows: a build with overflow checks panics,
\* a build without them wraps.  Both outcomes are possible.
aligned_epoch_i64(timestamp, interval_secs) ==
    LET r == rem_euclid(timestamp, interval_secs)
        exact == timestamp - r
    IN  IF exact >= I64Min
        THEN {[out |-> Some(exact), panicked |-> FALSE]}
        ELSE {[out |-> Some(wrapping_sub(timestamp, r)), panicked |-> FALSE],
              [out |-> None, panicked |-> TRUE]}

\* A caller applies aligned_epoch to a timestamp and an interval.
AlignedEpochCall ==
    \E t \in I64, i \in Intervals :
        \E res \in aligned_epoch_i64(t, i) :
            /\ calc' = [op |-> "aligned_epoch", args |-> <<t, i>>,
                        out |-> res.out, panicked |-> res.panicked]
            /\ UNCHANGED <<now, up, disk, proc, hist, claimers, claim_log, enabled, retry_backoff>>

NextAlign == AlignedEpochCall

SpecAlign == Init /\ [][NextAlign]_vars

\* C21: for every timestamp t (negative ones included) and every interval
\* i > 0, aligned_epoch(t, i) returns a value a with a <= t < a + i and
\* a mod i = 0.
AlignedEpochContract ==
    calc.op = "aligned_epoch" =>
        /\ ~calc.panicked
        /\ LET t == calc.args[1]
               i == calc.args[2]
               a == Get(calc.out)
           IN  /\ a <= t
               /\ t < a + i
               /\ a % i = 0

(***************************************************************************)
(* mod.rs: the service with [archive].enabled = false                      *)
(***************************************************************************)
\* ArchiveService::new with the archive disabled: no directory is created,
\* the tmp root is not cleaned, there is no replicator, no updates writer is
\* opened and no background task is spawned.
InitDisabled ==
    /\ retry_backoff = RetryBackoff
    /\ now = 0
    /\ up = TRUE
    /\ inodes = <<>>
    /\ tmp_dir = [p \in Paths |-> 0]
    /\ final_dir = [p \in Paths |-> 0]
    /\ sidecars = [p \in Paths |-> None]
    /\ replica = [d \in AsyncReplicas |-> [p \in Paths |-> NotCopied]]
    /\ queue = {}
    /\ next_id = 1
    /\ updates_writer = None
    /\ ribs_last = None
    /\ last_rib_bucket = None
    /\ locks = [l \in LockNames |-> Free]
    /\ failures = 0
    /\ dest_order \in Orders(AsyncReplicas)
    /\ task = [t \in Tasks |-> IdleTask]
    /\ rep = IdleRep
    /\ events = <<>>
    /\ finalized_log = <<>>
    /\ enqueue_log = {}
    /\ attempt_log = {}
    /\ budget = [ops |-> 0, crashes |-> 0, faults |-> 0, unreachable |-> 0]
    /\ claimers = [w \in ClaimWorkers |-> IdleClaimer]
    /\ claim_log = {}
    /\ calc = NoCalc
    /\ enabled = FALSE

\* The service as constructed from either configuration.
InitService == Init \/ InitDisabled

\* spawn_background_tasks: the replicator loop and the scheduler loop.
spawn_background_tasks == {"replicator", "scheduler"}

\* new: `if service.cfg.enabled { ...; service.spawn_background_tasks(); }`
BackgroundTasks == IF enabled THEN spawn_background_tasks ELSE {}

\* Every entry point returns Ok when the archive is disabled.
disabled_result_ok(op) == "ok"

\* What an entry point returns from its `if !self.cfg.enabled` block:
\* snapshot_now bails with "archive is disabled", the others return Ok(()).
disabled_result(op) == IF op = "snapshot" THEN "Disabled" ELSE "ok"

\* A call that returns from its `if !self.cfg.enabled` block.  The task
\* keeps the operation and the input of the call next to its result.
ReturnsAtOnce(t, op, ts, input) ==
    /\ CanStart(t)
    /\ task' = [task EXCEPT ![t] =
           [NewCall(op, ts, input) EXCEPT !.pc = "idle",
                                          !.result = disabled_result(op)]]
    /\ budget' = Started
    /\ UNCHANGED <<now, up, claim, disk, updates_writer, ribs_last,
                   last_rib_bucket, locks, failures, dest_order, rep, events,
                   finalized_log, enqueue_log, attempt_log>>

\* ingest_update / ingest_peer_state, from their first statement.
ServiceIngest(t, u) ==
    IF enabled THEN Ingest(t, u)
    ELSE ReturnsAtOnce(t, "ingest", u.timestamp, u)

\* snapshot_now, from its first statement.
ServiceSnapshotNow(t, input) ==
    IF enabled THEN SnapshotNow(t, input)
    ELSE ReturnsAtOnce(t, "snapshot", input.timestamp, input)

\* rollover(stream), from its first statement.
ServiceRollover(t, stream) ==
    IF enabled
    THEN IF stream = "updates" THEN RolloverUpdates(t) ELSE RolloverRibs(t)
    ELSE ReturnsAtOnce(t, "rollover", now, [stream |-> stream])

\* The scheduler loop, when it was spawned, calls tick.
ServiceTick ==
    /\ "scheduler" \in BackgroundTasks
    /\ IF enabled THEN Tick
       ELSE ReturnsAtOnce(Sched, "tick", now, EmptySnapshot(now))

\* The replicator loop, when it was spawned, calls run_once.
ServiceRunOnce ==
    /\ "replicator" \in BackgroundTasks
    /\ RunOnce

\* An enabled service is fed in real time with inputs that encode: the
\* timestamp of an input is the wall clock.  A disabled one gets any input.
RealTime(x) == enabled => (x.timestamp = now /\ x.valid)

\* The callers of the service make their calls one after the other.
NoOtherCall(t) ==
    \A c \in {Feeder, Operator, Sched} \ {t} : task[c].pc = "idle"

\* The entry points of a service that is enabled or disabled.
NextService ==
    \/ \E u \in IngestInputs :
           RealTime(u) /\ NoOtherCall(Feeder) /\ ServiceIngest(Feeder, u)
    \/ IngestWrite(Feeder)
    \/ \E i \in SnapshotInputs :
           RealTime(i) /\ NoOtherCall(Operator) /\ ServiceSnapshotNow(Operator, i)
    \/ \E s \in Streams : NoOtherCall(Operator) /\ ServiceRollover(Operator, s)
    \/ RotateEnsure(Operator)
    \/ NoOtherCall(Sched) /\ ServiceTick
    \/ TickRib
    \/ \E t \in Tasks : Finalize(t)
    \/ \E t \in Tasks : AfterFinalize(t)
    \/ ServiceRunOnce
    \/ ProcessJob
    \/ ClockAdvance

SpecService == InitService /\ [][NextService]_vars

\* History of a call that returned at once: the task that made it.
CalledDisabled(t) == ~enabled /\ task[t].op # "idle"

\* C23: when the archive is disabled, ingest_update, ingest_peer_state and
\* rollover return success and snapshot_now returns an error; none of them
\* opens a writer, creates a file, emits an event or enqueues a job, and no
\* scheduler task and no replicator task runs.
DisabledIsInert ==
    /\ [](~enabled =>
            /\ \A t \in Tasks :
                   /\ task[t].pc = "idle"
                   /\ task[t].op \in {"ingest", "rollover"} => task[t].result = "ok"
                   /\ task[t].op = "snapshot" => task[t].result = "Disabled"
            /\ task[Sched] = IdleTask
            /\ rep = IdleRep
            /\ updates_writer = None
            /\ events = <<>>
            /\ queue = {})
    /\ [][~enabled =>
            UNCHANGED <<disk, updates_writer, ribs_last, last_rib_bucket,
                        locks, failures, rep, events, finalized_log,
                        enqueue_log, attempt_log>>]_vars

DisabledWitness ==
    /\ CalledDisabled(Feeder)
    /\ task[Feeder].op = "ingest"
    /\ task[Feeder].result = "ok"
    /\ CalledDisabled(Operator)
    /\ task[Operator].op = "snapshot"
    /\ task[Operator].result = "Disabled"
    /\ tmp_dir = [p \in Paths |-> 0]

\* C22: after startup of an enabled service no temp segment file that a
\* previous run left behind remains under the tmp root: the only temp file
\* present when ArchiveService::new returns is the one it has just created
\* (truncated) for the updates writer of the current bucket.
StartupWipesTmpRoot ==
    [][ (~up /\ up') =>
            \A p \in Paths :
                tmp_dir'[p] # 0 => p = segment_paths("updates", now) ]_vars

\* The step in which ensure_updates_writer, called by task t, takes the open
\* writer out of the service to finalize it.
EnsureRotates(t) ==
    /\ task[t].pc # "finish"
    /\ task'[t].pc = "finish"
    /\ task'[t].ctx = "ensure"

\* C25: ensure_updates_writer(t) finalizes the open updates writer and opens
\* a new one only if the bucket has advanced: aligned(t) is later than the
\* start_ts of the open writer.  This holds for the scheduler's times and
\* for the timestamps of ingest_update and ingest_peer_state.
RotatesOnlyForward ==
    [][ \A t \in Tasks :
            EnsureRotates(t) =>
                aligned_epoch(task'[t].ts, UpdatesInterval) >
                    Get(updates_writer).start_ts ]_vars

\* The step in which the scheduler's tick returns.
TickReturns == task[Sched].op = "tick" /\ task'[Sched].pc = "idle"

\* The step in which the snapshot_now called by tick returns Ok.
ScheduledSnapshotDone ==
    /\ TickReturns
    /\ task[Sched].ctx = "snapshot"
    /\ task'[Sched].result = "ok"

RotationFails(t) ==
    /\ FinalizeErrs(t)
    /\ task[t].ctx \in {"ensure", "rotate"}

\* C27: if finalize fails while the updates writer is being rotated, the
\* failed writer is dropped without publishing a final path and the service
\* is left without an open writer; the next ensure_updates_writer then opens
\* a new, empty writer for the bucket of the time it is called with.
FailedRotationRecovers ==
    [][ /\ \A t \in Tasks :
               RotationFails(t) =>
                   /\ updates_writer' = None
                   /\ final_dir'[Get(task[t].w).path] # Get(task[t].w).ino
        /\ (updates_writer = None /\ updates_writer' # None) =>
               \E t \in Tasks :
                   /\ task'[t] # task[t]
                   /\ Get(updates_writer').record_count = 0
                   /\ Get(updates_writer').start_ts \in
                          { aligned_epoch(task[t].ts, UpdatesInterval),
                            aligned_epoch(task'[t].ts, UpdatesInterval) } ]_vars

\* The events of one type sent so far.
EventsOfType(type) == {i \in DOMAIN events : events[i].type = type}

\* The replicator handles the job at the head of its batch in this step.
JobStep == rep.pc = "batch" /\ attempt_log' # attempt_log

VanishedDestinationIsTerminal ==
    [][ (JobStep /\ Head(rep.batch).destination_key \notin DestKeys) =>
            \A r \in queue' :
                r.id = Head(rep.batch).id =>
                    /\ r.status = "failed"
                    /\ r \notin ReadyRows(queue', now + DefaultRetrySecs) ]_vars

\* The step of finalize that follows a step that succeeded.
StepAfter(pc) ==
    CASE pc = "finish"  -> "rename"
      [] pc = "rename"  -> "hash"
      [] pc = "hash"    -> "sidecar"
      [] pc = "sidecar" -> "post"

\* The file with this inode number starts with the finished compression
\* stream of writer w: its records, then the trailer.
StreamFinished(w, files) ==
    /\ Len(files[w.ino]) > Len(w.recs)
    /\ SubSeq(files[w.ino], 1, Len(w.recs) + 1) = w.recs \o <<EOF>>

\* C30: finalize performs its steps in the order finish (and fsync), rename,
\* hash, write the manifest, and stops at the first that fails: the finish
\* step leaves the writer's finished stream in its file, a file appears at a
\* final path only by the rename step of a finalize that has finished its
\* stream, and a manifest is written only by the last step of a finalize
\* that has renamed its segment to the final path.
FinalizeStepsInOrder ==
    [][ /\ \A t \in Tasks :
              (task[t].pc \in FinalizeSteps /\ task'[t] # task[t]) =>
                  \/ /\ task'[t].pc = StepAfter(task[t].pc)
                     /\ task[t].pc = "finish" =>
                            /\ StreamFinished(Get(task[t].w), inodes')
                            /\ final_dir' = final_dir
                  \/ /\ FinalizeErrs(t)
                     /\ final_dir' = final_dir
                     /\ sidecars' = sidecars
                     /\ tmp_dir' = tmp_dir
        /\ \A p \in Paths :
              final_dir'[p] # final_dir[p] =>
                  \E t \in Tasks :
                      /\ task[t].pc = "rename"
                      /\ task'[t].pc = "hash"
                      /\ Get(task[t].w).path = p
                      /\ final_dir'[p] = tmp_dir[p]
                      /\ tmp_dir'[p] = 0
                      /\ sidecars' = sidecars
        /\ \A p \in Paths :
              sidecars'[p] # sidecars[p] =>
                  \E t \in Tasks :
                      /\ task[t].pc = "sidecar"
                      /\ task'[t].pc = "post"
                      /\ Get(task[t].w).path = p
                      /\ final_dir[p] # 0
                      /\ sidecars'[p] = task[t].man ]_vars

\* One finalize has gone through all its steps and another has stopped at
\* a step that failed.
FinalizeStepsWitness ==
    /\ \E p \in Paths : final_dir[p] # 0 /\ sidecars[p] # None
    /\ finalized_log # <<>>
    /\ \E t \in Tasks : task[t].result = "Io"
    /\ budget.faults = 1

\* Task t's snapshot_now returns the error of build_table_dump_v2 in this step.
SnapshotBails(t) ==
    /\ task[t].pc = "idle"
    /\ task'[t].pc = "idle"
    /\ task'[t] # task[t]
    /\ task'[t].result = "Encode"

\* C31: snapshot_now on a snapshot with a route whose peer_index is unknown
\* or whose prefix_len exceeds 32 returns an error; no RIB segment is
\* published or replaced at the final path, no finalized event is emitted,
\* no replication job is enqueued and the last RIB segment is unchanged.
InvalidSnapshotPublishesNothing ==
    /\ [](\A t \in Tasks :
              (task[t].pc # "idle" /\ task[t].ctx = "snapshot") =>
                  Get(task[t].input).valid)
    /\ [][ \A t \in Tasks :
              SnapshotBails(t) =>
                  /\ final_dir' = final_dir
                  /\ sidecars' = sidecars
                  /\ queue' = queue
                  /\ ribs_last' = ribs_last
                  /\ finalized_log' = finalized_log
                  /\ Len(events') = Len(events) + 1
                  /\ events'[Len(events')].type = "archive_segment_opened"
          ]_vars

\* A snapshot of a bucket that has a published RIB segment was rejected: the
\* segment is still there, next to the tmp file the rejected call left.
InvalidSnapshotWitness ==
    /\ \E t \in Clients : task[t].result = "Encode"
    /\ \A t \in Tasks : task[t].pc = "idle"
    /\ ribs_last # None
    /\ \E p \in Paths :
          /\ p[1] = "ribs"
          /\ final_dir[p] # 0
          /\ tmp_dir[p] # 0
          /\ Get(ribs_last).final_path = p
          /\ Complete(inodes[final_dir[p]])

\* C32: no finalized updates segment is overwritten: within one run of the
\* service each updates final path is the target of at most one successful
\* rename, so a rename never lands on an updates final path that holds a
\* segment already.
UpdatesSegmentNeverOverwritten ==
    [][ \A p \in Paths :
            (p[1] = "updates" /\ final_dir'[p] # final_dir[p]) =>
                final_dir[p] = 0 ]_vars

(***************************************************************************)
(* segment_paths as a function of the configuration (layout.rs,            *)
(* config/mod.rs).  The file name carries the date and the hour and minute *)
(* of the aligned timestamp, as chrono computes them for UTC; a path is    *)
(* the tuple of its components, a formatted field the tuple of its         *)
(* numbers.                                                                *)
(***************************************************************************)
MaxLayoutInterval == 60
MaxLayoutTs == 61

\* 2026-02-21T13:30:00Z, the bucket of the instant the layout tests use.
LayoutBase == 1771680600

LayoutTimes == {LayoutBase + d : d \in 0 .. MaxLayoutTs}
LayoutProfiles == {"routeviews", "ris"}

\* ArchiveConfig::validate for an enabled archive: the checks on the two
\* intervals (collector id, destinations and templates are taken as valid).
validate(cfg) ==
    /\ ~(cfg.updates_interval_secs = 0
            \/ 3600 % cfg.updates_interval_secs # 0)
    /\ ~(cfg.ribs_interval_secs = 0
            \/ cfg.ribs_interval_secs % cfg.updates_interval_secs # 0)

LayoutConfigs ==
    { cfg \in [layout_profile : LayoutProfiles,
               updates_interval_secs : 0 .. MaxLayoutInterval,
               ribs_interval_secs : 0 .. MaxLayoutInterval] : validate(cfg) }

\* Utc.timestamp_opt(secs, 0): the proleptic Gregorian date and the time of
\* day of a Unix timestamp.
utc_datetime(secs) ==
    LET days == secs \div 86400
        sod  == secs % 86400
        z    == days + 719468
        era  == z \div 146097
        doe  == z - era * 146097
        yoe  == (doe - (doe \div 1460) + (doe \div 36524) - (doe \div 146096))
                    \div 365
        doy  == doe - (365 * yoe + (yoe \div 4) - (yoe \div 100))
        mp   == (5 * doy + 2) \div 153
        d    == doy - ((153 * mp + 2) \div 5) + 1
        m    == IF mp < 10 THEN mp + 3 ELSE mp - 9
        y    == yoe + era * 400 + (IF m <= 2 THEN 1 ELSE 0)
    IN  [year |-> y, month |-> m, day |-> d,
         hour |-> sod \div 3600, minute |-> (sod % 3600) \div 60]

\* segment_paths(cfg, stream, timestamp) for the RouteViews and RIS
\* profiles.
segment_paths_cfg(cfg, stream, timestamp) ==
    LET aligned == IF stream = "updates"
                   THEN aligned_epoch(timestamp, cfg.updates_interval_secs)
                   ELSE aligned_epoch(timestamp, cfg.ribs_interval_secs)
        dt == utc_datetime(aligned)
        year_month == <<dt.year, dt.month>>
        yyyymmdd == <<dt.year, dt.month, dt.day>>
        hhmm == <<dt.hour, dt.minute>>
        ext == "gz"
        dir == IF cfg.layout_profile = "routeviews"
               THEN <<"collector", year_month,
                      IF stream = "updates" THEN "UPDATES" ELSE "RIBS">>
               ELSE <<"collector", year_month>>
        file_name ==
            IF cfg.layout_profile = "routeviews"
            THEN <<IF stream = "updates" THEN "updates" ELSE "rib",
                   yyyymmdd, hhmm, ext>>
            ELSE <<IF stream = "updates" THEN "updates" ELSE "bview",
                   yyyymmdd, hhmm, ext>>
        relative_path == Append(dir, file_name)
        tmp_relative == Append(dir, <<".", file_name, "tmp">>)
    IN  [tmp_path |-> <<"tmp_root">> \o tmp_relative,
         final_path |-> <<"root">> \o relative_path,
         relative_path |-> relative_path,
         bucket |-> aligned]

\* A caller asks for the paths of two timestamps under one configuration
\* (one such pair of calls per run).
SegmentPathsCall ==
    /\ calc = NoCalc
    /\ \E cfg \in LayoutConfigs, stream \in Streams :
        \E t1 \in LayoutTimes :
          \E t2 \in {t \in LayoutTimes : t1 <= t} :
            /\ calc' = [op |-> "segment_paths",
                        args |-> <<cfg.layout_profile, stream,
                                   IF stream = "updates"
                                   THEN cfg.updates_interval_secs
                                   ELSE cfg.ribs_interval_secs, t1, t2>>,
                        out |-> Some(<<segment_paths_cfg(cfg, stream, t1),
                                       segment_paths_cfg(cfg, stream, t2)>>),
                        panicked |-> FALSE]
            /\ UNCHANGED <<now, up, disk, proc, hist, claimers, claim_log, enabled, retry_backoff>>

NextLayout == SegmentPathsCall

SpecLayout == Init /\ [][NextLayout]_vars

\* C33: for every configuration that validate accepts and each stream, two
\* timestamps yield the same final_path (and the same tmp_path) if and only
\* if they fall in the same bucket.
SegmentPathsOneToOne ==
    calc.op = "segment_paths" =>
        LET p1 == Get(calc.out)[1]
            p2 == Get(calc.out)[2]
        IN  /\ (p1.final_path = p2.final_path) <=> (p1.bucket = p2.bucket)
            /\ (p1.tmp_path = p2.tmp_path) <=> (p1.bucket = p2.bucket)

\* C34: on an enabled, started service whose file operations all succeed,
\* no ingest of a well-formed record fails for lack of an open updates
\* writer, under any interleaving with rollover(Updates), ticks and other
\* ingests.
IngestAlwaysFindsWriter ==
    (up /\ budget.faults = 0) =>
        \A t \in Sessions : task[t].result # "NoWriter"

(***************************************************************************)
(* replicator.rs: run_once when a statement on the queue fails.            *)
(* mark_failed and mark_success open a connection and execute one          *)
(* statement (queue.rs); either step can return an error.  run_once passes *)
(* the error on with `?`: it returns at once, the rest of the batch is     *)
(* dropped, and the outer loop logs the error and sleeps.                  *)
(***************************************************************************)
ProcessJobQueueError ==
    /\ up
    /\ rep.pc = "batch"
    /\ budget.faults < MaxFaults
    /\ LET job == Head(rep.batch)
       IN  \E reachable \in ReachChoices :
              LET err == process_job(job, reachable)
              IN  /\ budget' = [AfterReach(job, reachable) EXCEPT !.faults = @ + 1]
                  /\ IF err = ""
                     THEN /\ replica' = [replica EXCEPT
                                 ![job.destination_key][job.segment_path] =
                                     [ segment |-> Some(inodes[final_dir[job.segment_path]]),
                                       manifest |-> sidecars[job.segment_path] ]]
                          /\ UNCHANGED failures
                     ELSE /\ failures' = fetch_add(failures, 1)
                          /\ UNCHANGED replica
                  /\ attempt_log' = attempt_log \cup {Attempt(job, err = "")}
    /\ rep' = IdleRep
    /\ UNCHANGED <<now, up, claim, inodes, tmp_dir, final_dir, sidecars, next_id,
                   updates_writer, ribs_last, last_rib_bucket, locks, queue,
                   dest_order, task, events, finalized_log, enqueue_log>>

\* The queue and the replicator when statements on the queue can fail.
NextQueueFault ==
    \/ \E p \in DirectPaths, d \in AsyncReplicas,
          m \in 0 .. ReplicaMaxRetries : EnqueueDirect(p, d, m)
    \/ RolloverRibs("ctl1")
    \/ \E t \in Tasks : Finalize(t)
    \/ \E t \in Tasks : AfterFinalize(t)
    \/ RunOnce
    \/ ProcessJob
    \/ ProcessJobQueueError
    \/ RetryFailedReplications
    \/ ClockAdvance

SpecQueueFault == Init /\ [][NextQueueFault]_vars

\* C35: whenever run_once has returned, with Ok or with an error (a failed
\* mark_success or mark_failed in the middle of a batch included), no row
\* of the queue is in_progress: every job the run claimed is deleted,
\* pending or failed.
NoJobStranded ==
    (up /\ rep.pc = "sleep") => \A r \in queue : r.status # "in_progress"

(***************************************************************************)
(* The three mutexes of ArchiveService under all the operations that lock  *)
(* them: ingest, rollover(Updates), rollover(Ribs), snapshot_now, status   *)
(* and the scheduler tick.                                                 *)
(***************************************************************************)
NextLocks ==
    \/ \E u \in IngestInputs : Ingest(Feeder, u)
    \/ IngestWrite(Feeder)
    \/ RolloverUpdates("ctl1")
    \/ RotateEnsure("ctl1")
    \/ \E i \in SnapshotInputs : SnapshotNow("ctl1", i)
    \/ RolloverRibs("ctl1")
    \/ StatusCall("ctl2")
    \/ StatusLockRibs("ctl2")
    \/ StatusRead("ctl2")
    \/ Tick
    \/ TickRib
    \/ \E t \in Tasks : Finalize(t)
    \/ \E t \in Tasks : AfterFinalize(t)
    \/ ClockAdvance

SpecLocks == Init /\ [][NextLocks]_vars

\* The runtime polls every task that can run: a call that has started takes
\* its next step when that step stays possible.
FairLocks ==
    /\ WF_vars(IngestWrite(Feeder))
    /\ WF_vars(RotateEnsure("ctl1"))
    /\ WF_vars(StatusLockRibs("ctl2"))
    /\ WF_vars(StatusRead("ctl2"))
    /\ WF_vars(TickRib)
    /\ \A t \in Tasks : WF_vars(Finalize(t))
    /\ \A t \in Tasks : WF_vars(AfterFinalize(t))

SpecLocksFair == SpecLocks /\ FairLocks

\* The mutexes the next step of call t has to lock.
Wanted(t) ==
    LET tk == task[t]
    IN  CASE tk.pc = "status_ribs" -> {"ribs_last"}
          [] tk.pc = "write" /\ Get(tk.input).valid -> {"updates_writer"}
          [] tk.pc = "ensure" -> {"updates_writer"}
          [] tk.pc = "rib" -> {"last_rib_bucket"}
          [] tk.pc = "post" /\ tk.ctx = "snapshot" -> {"ribs_last"}
          [] OTHER -> {}

\* A set of calls each of which waits for a mutex held by a call of the set.
LockCycle(S) ==
    /\ S # {}
    /\ \A t \in S : \E l \in Wanted(t) : locks[l] \in S

\* C36: the acquisitions of the three service mutexes never form a cycle,
\* a held mutex belongs to a call in progress, and every call that waits
\* for a mutex gets past the wait.
ServiceMutexesNeverDeadlock ==
    /\ [](\A S \in SUBSET Tasks : ~LockCycle(S))
    /\ [](\A l \in LockNames : locks[l] # Free => task[locks[l]].pc # "idle")
    /\ \A t \in Tasks : (Wanted(t) # {}) ~> (Wanted(t) = {})

\* A call waits for a mutex that another call holds, which itself holds a
\* second mutex or is in the middle of a finalize.
MutexWaitWitness ==
    \E t \in Tasks : \E l \in Wanted(t) :
        /\ locks[l] \in Tasks \ {t}
        /\ \E l2 \in LockNames \ {l} : locks[l2] = locks[l]

(***************************************************************************)
(* The replicator in front of a backlog.  The service starts on a queue    *)
(* that an earlier run left with ClaimLimit pending rows for the replica   *)
(* that retries for ever, whose segment and manifest are gone from the     *)
(* archive root: every attempt on them fails.  The configured              *)
(* retry_backoff_secs is 0 or RetryBackoff.  The wall clock is left out:   *)
(* with a backoff of 0 a failed row is due again at once, whatever the     *)
(* time of the next run.                                                   *)
(***************************************************************************)
LostPath == segment_paths("ribs", MaxTime)

InitBacklog ==
    /\ retry_backoff \in 0 .. RetryBackoff
    /\ now = 0
    /\ up = TRUE
    /\ inodes = << <<>> >>
    /\ tmp_dir = [p \in Paths |-> IF p = segment_paths("updates", 0) THEN 1 ELSE 0]
    /\ final_dir = [p \in Paths |-> 0]
    /\ sidecars = [p \in Paths |-> None]
    /\ replica = [d \in AsyncReplicas |-> [p \in Paths |-> NotCopied]]
    /\ queue = {NewRow(i, LostPath, "d1", Destinations.d1.max_retries) :
                    i \in 1 .. ClaimLimit}
    /\ next_id = ClaimLimit + 1
    /\ updates_writer =
        << [ stream |-> "updates", start_ts |-> 0,
             path |-> segment_paths("updates", 0), ino |-> 1,
             recs |-> <<>>, record_count |-> 0, ok_writes |-> 0,
             failed_writes |-> 0 ] >>
    /\ ribs_last = None
    /\ last_rib_bucket = None
    /\ locks = [l \in LockNames |-> Free]
    /\ failures = 0
    /\ dest_order \in Orders(AsyncReplicas)
    /\ task = [t \in Tasks |-> IdleTask]
    /\ rep = IdleRep
    /\ events = << Opened(segment_paths("updates", 0)) >>
    /\ finalized_log = <<>>
    /\ enqueue_log = {}
    /\ attempt_log = {}
    /\ budget = [ops |-> 0, crashes |-> 0, faults |-> 0, unreachable |-> 0]
    /\ claimers = [w \in ClaimWorkers |-> IdleClaimer]
    /\ claim_log = {}
    /\ calc = NoCalc
    /\ enabled = TRUE

\* The replicator's first run comes after rollover(Ribs) has published and
\* enqueued a new segment.
Published == budget.ops = 1 /\ task[Operator].pc = "idle"

BacklogRunOnce == Published /\ RunOnce

NextBacklog ==
    \/ budget.ops = 0 /\ RolloverRibs(Operator)
    \/ Finalize(Operator)
    \/ AfterFinalize(Operator)
    \/ BacklogRunOnce
    \/ ProcessJob

SpecBacklog == InitBacklog /\ [][NextBacklog]_vars

\* When BacklogRunOnce can take a step.
BacklogRunOnceDue ==
    Published /\ up /\ rep.pc = "sleep" /\ ReadyRows(queue, now) # {}

\* The replicator loop runs for ever and a started rollover runs to its end.
\* The first conjunct is weak fairness of BacklogRunOnce, written out.
FairBacklog ==
    /\ []<>(~BacklogRunOnceDue) \/ []<><<BacklogRunOnce>>_vars
    /\ WF_vars(ProcessJob)
    /\ WF_vars(Finalize(Operator))
    /\ WF_vars(AfterFinalize(Operator))

SpecBacklogFair == SpecBacklog /\ FairBacklog

\* The rows enqueued after the backlog.
Young(r) == r.id > ClaimLimit

\* C37: a pending job is eventually claimed and attempted by the replicator
\* loop, even while older jobs fail on every attempt, for every
\* retry_backoff_secs >= 0 and the batch size of claim_ready.
NoStarvationBetweenJobs ==
    (\E r \in queue : Young(r) /\ r.status = "pending")
        ~> (\E a \in attempt_log : Young(a))

\* The attempt the step makes on the job of row r fails.
FailedAttemptOn(r) ==
    \E a \in attempt_log' \ attempt_log : a.id = r.id /\ ~a.ok

\* A row that was failed and was revived by retry_failed: it is not failed
\* and its attempts have used up its retry budget.
Revived(r) ==
    r.status # "failed" /\ r.max_retries > 0 /\ r.attempts >= r.max_retries

\* C38: a job's attempts start at 0, grow by exactly 1 on each mark_failed
\* and change in no other step (claim_ready and retry_failed included), so
\* they never decrease; a job with max_retries > 0 that was failed and
\* revived is failed again by its next failed attempt.
AttemptsOnlyGrow ==
    [][ /\ \A r2 \in queue' :
              (\A r \in queue : r.id # r2.id) => r2.attempts = 0
        /\ \A r \in queue : \A r2 \in queue' :
              r2.id = r.id =>
                  /\ r2.attempts >= r.attempts
                  /\ r2.attempts =
                         IF FailedAttemptOn(r) THEN r.attempts + 1 ELSE r.attempts
                  /\ (Revived(r) /\ FailedAttemptOn(r)) => r2.status = "failed"
      ]_vars

\* A row was failed, was revived by retry_failed, was attempted once more
\* and is failed again, its attempts beyond its retry budget.
RevivedFailedAgainWitness ==
    \E r \in queue :
        /\ r.status = "failed"
        /\ r.max_retries > 0
        /\ r.attempts > r.max_retries
        /\ Cardinality({a \in attempt_log : a.id = r.id /\ ~a.ok}) = r.attempts

\* A manifest describes a file: its bytes and sha256 are those of the file.
Describes(man, file) ==
    /\ man.bytes = Len(file)
    /\ man.sha256 = compute_sha256(file)

\* C39: the segment and the manifest one replication job copies to a local
\* destination are consistent with each other: the sha256 and bytes of the
\* copied manifest describe the copied segment file, however the manifest
\* read and the two copies interleave with a finalize that publishes the
\* same final path again.
CopiedManifestDescribesSegment ==
    rep.pc = "mark" =>
        LET job == Head(rep.batch)
            copy == replica[job.destination_key][job.segment_path]
        IN  /\ copy.segment # None /\ copy.manifest # None
            /\ Describes(Get(copy.manifest), Get(copy.segment))

\* A RIB segment of the bucket has been finalized.
RibFinalized(bucket) ==
    \E i \in DOMAIN finalized_log :
        /\ finalized_log[i].stream = "ribs"
        /\ finalized_log[i].start_ts = bucket

\* The file holds the record of a route.
HasRoutes(file) ==
    \E i \in DOMAIN file :
        file[i] # EOF /\ file[i][1] = "rib_ipv4_unicast"

\* The step in which tick calls snapshot_now.
TickCallsSnapshot ==
    task[Sched].op = "tick" /\ task[Sched].pc = "rib" /\ task'[Sched].w # None

\* C40: once a RIB bucket has a finalized segment, a scheduler tick in that
\* bucket does not call snapshot_now for it, and so a segment with routes
\* that an explicit snapshot_now finalized is not replaced by the empty
\* snapshot of the scheduler.
SchedulerSparesFinalizedBucket ==
    [][ /\ TickCallsSnapshot =>
              ~RibFinalized(aligned_epoch(task[Sched].ts, RibsInterval))
        /\ \A p \in Paths :
              ( /\ task[Sched].op = "tick"
                /\ task[Sched].pc = "rename"
                /\ final_dir'[p] # final_dir[p]
                /\ final_dir[p] # 0 ) =>
                  ~HasRoutes(inodes[final_dir[p]]) ]_vars

====
